---- MODULE Spec2Model ----
(***************************************************************************)
(* Model of the askto sales agent: the per-turn LangGraph state machine    *)
(* (graph.py), its nodes (nodes/*.py), the Redis session cache             *)
(* (memory/redis_client.py) and the PostgreSQL store                       *)
(* (memory/postgres_client.py, memory/models.py).                          *)
(***************************************************************************)
EXTENDS Integers, Sequences, FiniteSets, TLC

VARIABLES
    env,        \* the deployment: is OPENROUTER_API_KEY set, the llm_client callers pass
    redis,      \* the session's key family: metadata hash, message list, expiry order
    expired,    \* keys: those removed by TTL expiry and not written since;
                \* ever: has a TTL of this session run out
    pg,         \* PostgreSQL tables: users, profiles, sessions, turns, insights
    started,    \* start_session has run
    pc,         \* position of the running process_message call, "idle" between turns
    st,         \* AgentState of the running turn; between turns, the state of the
                \* last result, which the process holds until it restarts
    arg,        \* arguments of the running call: user_input, session_type
    trace,      \* graph nodes entered in the running / last turn, in order
    turn0,      \* what the turn found at its start: metadata, message list, live
                \* and expired keys, is it the session's first turn; the state it
                \* built; did the process hold a verified identity the store lacks
    pgWrites,   \* durable-store writes committed by the running / last turn
    indexes,    \* the turn_index of every add_conversation_turn call of the session, in call order
    ret,        \* what the last process_message call returned
    lastOp,     \* last mutating ephemeral-store operation and the keys whose TTL it reset
    turns,      \* number of process_message calls made so far
    faults,     \* number of failures the stores and the model API have had so far
    failed,     \* the steps of the running turn in which a store or the API failed
    callers,    \* the get_or_create_user calls of concurrent sessions
    writers     \* the store_insight and update_user_profile calls of concurrent sessions

vars == <<env, redis, expired, pg, started, pc, st, arg, trace, turn0, pgWrites, indexes, ret,
          lastOp, turns, faults, failed, callers, writers>>

----------------------------------------------------------------------------
(* Bounds of the model *)

MaxTurns == 3
MaxFaults == 1
MaxCalls == 2
MaxMessages == 3
MaxSessions == 6

----------------------------------------------------------------------------
(* Values *)

None == "None"
NoPhone == <<>>

SessionId == "s1"
SessionTypes == {"discovery", "pitch"}
LlmClients == {"none", "ainvoke", "plain"}

\* The utterances the caller sends, and the characters of each.
Texts == {"", "Daily", "98765 43210"}

Chars(text) ==
    CASE text = "" -> <<>>
      [] text = "Daily" -> <<"D", "a", "i", "l", "y">>
      [] text = "daily" -> <<"d", "a", "i", "l", "y">>
      [] text = "occasionally" ->
            <<"o", "c", "c", "a", "s", "i", "o", "n", "a", "l", "l", "y">>
      [] text = "98765 43210" -> <<"9", "8", "7", "6", "5", " ", "4", "3", "2", "1", "0">>
      [] text = "3-4" -> <<"3", "-", "4">>
      [] text = "5" -> <<"5">>
      [] text = "times" -> <<"t", "i", "m", "e", "s">>
      [] text = "per week" -> <<"p", "e", "r", " ", "w", "e", "e", "k">>
      [] text = "twice" -> <<"t", "w", "i", "c", "e">>
      [] text = "a week" -> <<"a", " ", "w", "e", "e", "k">>
      [] text = "sometimes" -> <<"s", "o", "m", "e", "t", "i", "m", "e", "s">>
      [] text = "twice a week" ->
            <<"t", "w", "i", "c", "e", " ", "a", " ", "w", "e", "e", "k">>
      [] text = "3-4 times per week" ->
            <<"3", "-", "4", " ", "t", "i", "m", "e", "s", " ",
              "p", "e", "r", " ", "w", "e", "e", "k">>

\* Texts the external model may answer with (an empty content is possible).
LlmReplies == {"", "reply"}

Greeting == "Hello! ... may I know your phone number so I can assist you better?"
RePrompt == "I didn't quite catch that. Could you please share your 10-digit mobile number?"
WelcomeNew == "Thank you! I've noted your number ending in ..."
WelcomeBack == "Welcome back, ...!"
FallbackWelcome == "Thank you! I've noted your number. ... May I know your name?"
FallbackPrompt == "Could you please share your phone number so I can assist you better?"
ApologyLlm == "I apologize, I'm having a brief technical issue. Could you repeat that?"
ApologyOpenRouter == "I apologize, I'm experiencing technical difficulties."
ApologyTurn == "I apologize, I'm experiencing a technical issue. Could you please try again?"

\* dict.get(key, default) and dict.update on finite maps
Get(m, k, d) == IF k \in DOMAIN m THEN m[k] ELSE d
Update(m, upd) == upd @@ m
EmptyMap == <<>>

Truthy(x) == x \notin {None, ""}
Range(f) == {f[i] : i \in DOMAIN f}
Min(S) == CHOOSE x \in S : \A y \in S : x <= y

----------------------------------------------------------------------------
(* identity_node.py: extract_phone_number *)

Digits == {"0", "1", "2", "3", "4", "5", "6", "7", "8", "9"}
MobileLead == {"6", "7", "8", "9"}
Separators == {" ", "-", ".", "(", ")"}

Sub(s, i, n) == [k \in 1..n |-> s[i + k - 1]]
HasAt(s, i, pat) == i + Len(pat) - 1 <= Len(s) /\ Sub(s, i, Len(pat)) = pat
DigitsAt(s, i, n) == i + n - 1 <= Len(s) /\ \A k \in 0..(n - 1) : s[i + k] \in Digits
MobileAt(s, i) == i <= Len(s) /\ s[i] \in MobileLead /\ DigitsAt(s, i, 10)

\* r'(?:\+91|91)?([6-9]\d{9})' tried at position i: group 1, or <<>> for no match
PrefixedMobile(s, i) ==
    IF HasAt(s, i, <<"+", "9", "1">>) /\ MobileAt(s, i + 3) THEN Sub(s, i + 3, 10)
    ELSE IF HasAt(s, i, <<"9", "1">>) /\ MobileAt(s, i + 2) THEN Sub(s, i + 2, 10)
    ELSE IF MobileAt(s, i) THEN Sub(s, i, 10)
    ELSE <<>>
\* r'([6-9]\d{9})'
PlainMobile(s, i) == IF MobileAt(s, i) THEN Sub(s, i, 10) ELSE <<>>
\* r'(\d{10})'
TenDigits(s, i) == IF DigitsAt(s, i, 10) THEN Sub(s, i, 10) ELSE <<>>

\* The leftmost of the positions where a pattern matches, 0 if there is none
Leftmost(hits) == IF hits = {} THEN 0 ELSE Min(hits)

\* match.group(1) of the match at position i; <<>> when re.search found none
GroupPrefixedMobile(s, i) == IF i = 0 THEN <<>> ELSE PrefixedMobile(s, i)
GroupPlainMobile(s, i) == IF i = 0 THEN <<>> ELSE PlainMobile(s, i)
GroupTenDigits(s, i) == IF i = 0 THEN <<>> ELSE TenDigits(s, i)

\* re.search of each pattern
SearchPrefixedMobile(s) ==
    GroupPrefixedMobile(s, Leftmost({i \in 1..Len(s) : PrefixedMobile(s, i) # <<>>}))

SearchPlainMobile(s) ==
    GroupPlainMobile(s, Leftmost({i \in 1..Len(s) : PlainMobile(s, i) # <<>>}))

SearchTenDigits(s) ==
    GroupTenDigits(s, Leftmost({i \in 1..Len(s) : TenDigits(s, i) # <<>>}))

\* Lines 24-38: the first pattern with a group of 10 digits, else the last 10
\* of all the digits of the text
FirstPhone(p1, p2, p3, all_digits) ==
    IF Len(p1) = 10 THEN p1
    ELSE IF Len(p2) = 10 THEN p2
    ELSE IF Len(p3) = 10 THEN p3
    ELSE IF Len(all_digits) >= 10
         THEN Sub(all_digits, Len(all_digits) - 9, 10)
         ELSE NoPhone

\* The searches in the text without separators
PhoneIn(cleaned, all_digits) ==
    FirstPhone(SearchPrefixedMobile(cleaned), SearchPlainMobile(cleaned),
               SearchTenDigits(cleaned), all_digits)

\* Returns the 10 digits, or NoPhone for Python's None.
extract_phone_number(chars) ==
    PhoneIn(SelectSeq(chars, LAMBDA c : c \notin Separators),
            SelectSeq(chars, LAMBDA c : c \in Digits))

check_identity(state) ==
    IF state.identity_verified THEN "retrieve_memory" ELSE "identity"

----------------------------------------------------------------------------
(* redis_client.py: RedisMemory.  The key family of the session is the     *)
(* hash session:<id> ("meta") and the list session:<id>:messages ("msgs"). *)
(* Both get the same SESSION_TTL, so the key whose TTL was reset earlier   *)
(* expires earlier: ttl lists the live keys, earliest deadline first.      *)

FamilyKeys == {"meta", "msgs"}

json_dumps(v) == <<"json", v>>
json_loads(j) == j[2]

\* EXPIRE key SESSION_TTL: the key's deadline becomes the latest one
Expire(ttl, key) == SelectSeq(ttl, LAMBDA k : k # key) \o <<key>>

\* An HSET that stores the mapping as the whole hash, dropping the other fields
HSetExpire_Replace(r, mapping) ==
    [r EXCEPT !.meta = [k \in DOMAIN mapping |-> json_dumps(mapping[k])],
              !.ttl = Expire(r.ttl, "meta"),
              !.touched = r.touched \cup {"meta"}]

\* HSET key mapping; EXPIRE key
HSetExpire(r, mapping) ==
    [r EXCEPT !.meta = [k \in DOMAIN mapping |-> json_dumps(mapping[k])] @@ r.meta,
              !.ttl = Expire(r.ttl, "meta"),
              !.touched = r.touched \cup {"meta"}]

store_session_metadata(r, session_id, user_id, session_type, phone_number, identity_verified) ==
    HSetExpire(r, [session_id |-> session_id,
                   user_id |-> IF Truthy(user_id) THEN user_id ELSE None,
                   session_type |-> session_type,
                   phone_number |-> phone_number,
                   identity_verified |-> identity_verified,
                   turn_count |-> 0])

\* HGETALL: the empty map stands for Python's None (both are falsy)
get_session_metadata(r) == [k \in DOMAIN r.meta |-> json_loads(r.meta[k])]

update_session_metadata(r, updates) ==
    IF DOMAIN updates = {} THEN r ELSE HSetExpire(r, updates)

\* add_message lines 124-127: RPUSH and EXPIRE of the list
Pushed(r, role, content) ==
    [r EXCEPT !.messages = Append(r.messages, json_dumps([role |-> role, content |-> content])),
              !.ttl = Expire(r.ttl, "msgs"),
              !.touched = r.touched \cup {"msgs"}]

\* The count RPUSH answers, which add_message returns: the length of the
\* list after the push
PushCount(r) == Len(r.messages) + 1

\* An add_message that counts the calls: the counter of the metadata plus one
add_message_Increment(r, role, content) ==
    update_session_metadata(Pushed(r, role, content),
        [turn_count |-> Get(get_session_metadata(r), "turn_count", 0) + 1])

\* RPUSH, EXPIRE, then the turn_count update with the count RPUSH returned
add_message(r, role, content) ==
    update_session_metadata(Pushed(r, role, content), [turn_count |-> PushCount(r)])

get_messages(r) == [i \in DOMAIN r.messages |-> json_loads(r.messages[i])]

clear_session(r) == [meta |-> EmptyMap, messages |-> <<>>, ttl |-> <<>>, touched |-> {}]

LiveKeys(r) == Range(r.ttl)

\* The key with the earliest deadline expires.
ExpireOldest(r) ==
    LET key == Head(r.ttl)
    IN  [meta |-> IF key = "meta" THEN EmptyMap ELSE r.meta,
         messages |-> IF key = "msgs" THEN <<>> ELSE r.messages,
         ttl |-> Tail(r.ttl),
         touched |-> {}]

\* The state an operation starts from: touched collects the keys whose TTL
\* the operation resets.
Call(r) == [r EXCEPT !.touched = {}]

----------------------------------------------------------------------------
(* postgres_client.py: PostgresMemory, with the constraints of models.py   *)

UserIds == <<"u1", "u2", "u3">>

EmptyTables == [users |-> <<>>, profiles |-> <<>>, sessions |-> <<>>,
                turns |-> <<>>, insights |-> <<>>]

hash_phone(phone_number) ==
    <<"sha256", SelectSeq(phone_number, LAMBDA c : c \in Digits)>>

get_last_four(phone_number) ==
    LET normalized == SelectSeq(phone_number, LAMBDA c : c \in Digits)
    IN  IF Len(normalized) >= 4 THEN Sub(normalized, Len(normalized) - 3, 4)
        ELSE normalized

\* SELECT ... WHERE phone_number_hash = :hash (the set of matching rows)
find_user_by_phone(P, phone_number) ==
    {u \in Range(P.users) : u.phone_number_hash = hash_phone(phone_number)}

\* users.phone_number_hash is UNIQUE: the INSERT of a second row raises
UserInsertRaises(P, phone_number) == find_user_by_phone(P, phone_number) # {}

\* create_user, first commit: the users row
InsertUser(P, phone_number, name) ==
    [P EXCEPT !.users = Append(@, [id |-> UserIds[Len(P.users) + 1],
                                   phone_number_hash |-> hash_phone(phone_number),
                                   phone_last_four |-> get_last_four(phone_number),
                                   name |-> name])]

DefaultProfile(user_id) ==
    [user_id |-> user_id, spending_patterns |-> EmptyMap, food_habits |-> EmptyMap,
     financial_goals |-> EmptyMap, current_cards |-> EmptyMap,
     preferences |-> EmptyMap, pain_points |-> <<>>]

\* create_user, second commit: the empty user_profiles row
InsertProfile(P, user_id) ==
    [P EXCEPT !.profiles = Append(@, DefaultProfile(user_id))]

\* sessions.id is a fresh uuid4: never the id of the Redis session
DbSessionIds == <<"d1", "d2", "d3", "d4", "d5", "d6", "d7", "d8">>
SessionRowIds(P) == {P.sessions[i].id : i \in DOMAIN P.sessions}

\* started_at defaults to the time of the INSERT: the rows' clock is their count
create_session(P, user_id, session_type) ==
    [P EXCEPT !.sessions = Append(@, [id |-> DbSessionIds[Len(P.sessions) + 1],
                                      user_id |-> user_id,
                                      session_type |-> session_type,
                                      started_at |-> Len(P.sessions) + 1,
                                      ended_at |-> None, summary |-> None,
                                      outcome |-> None])]

\* PostgresMemory.end_session: the UPDATE of the row with that id
end_session(P, session_id, summary, outcome) ==
    [P EXCEPT !.sessions = [i \in DOMAIN @ |->
        IF @[i].id = session_id
        THEN [@[i] EXCEPT !.ended_at = "now", !.summary = summary, !.outcome = outcome]
        ELSE @[i]]]

RECURSIVE Reverse(_)
Reverse(s) == IF s = <<>> THEN <<>> ELSE Append(Reverse(Tail(s)), Head(s))

\* A query that returns the sessions oldest first
get_user_sessions_OldestFirst(P, user_id, session_type, limit) ==
    LET mine == SelectSeq(P.sessions, LAMBDA row :
                    row.user_id = user_id
                    /\ (session_type = None \/ row.session_type = session_type))
    IN  SubSeq(mine, 1, IF Len(mine) < limit THEN Len(mine) ELSE limit)

\* get_user_sessions: newest first, optionally of one type, at most limit rows
get_user_sessions(P, user_id, session_type, limit) ==
    LET mine == SelectSeq(P.sessions, LAMBDA row :
                    row.user_id = user_id
                    /\ (session_type = None \/ row.session_type = session_type))
        newest == Reverse(mine)
    IN  SubSeq(newest, 1, IF Len(newest) < limit THEN Len(newest) ELSE limit)

get_user_profile(P, user_id) ==
    {row \in Range(P.profiles) : row.user_id = user_id}

\* An append that does not look for the item in the list
AppendUnique_Every(current, items) == current \o items

\* Merge of one column: dict.update for maps, append-if-absent for lists
RECURSIVE AppendUnique(_, _)
AppendUnique(current, items) ==
    IF items = <<>> THEN current
    ELSE AppendUnique(IF Head(items) \in Range(current) THEN current
                      ELSE Append(current, Head(items)), Tail(items))

ListColumns == {"pain_points"}

MergeColumn(key, current, value) ==
    IF key \in ListColumns THEN AppendUnique(current, value) ELSE Update(current, value)

\* Lines 174-188 and the UPDATE of the commit: the columns named in updates
\* get the merge of the value the SELECT loaded; the merge is taken as
\* written by the commit.  The other columns keep what the row holds.
MergeProfile(row, loaded, updates) ==
    [k \in DOMAIN row |->
        IF k \in DOMAIN updates THEN MergeColumn(k, loaded[k], updates[k]) ELSE row[k]]

\* Lines 168-171: the row inserted when the SELECT found none
NewProfile(user_id, updates) == updates @@ DefaultProfile(user_id)

update_user_profile(P, user_id, updates) ==
    LET rows == {i \in DOMAIN P.profiles : P.profiles[i].user_id = user_id}
    IN  IF rows = {}
        THEN [P EXCEPT !.profiles = Append(@, NewProfile(user_id, updates))]
        ELSE LET i == CHOOSE j \in rows : TRUE
             IN  [P EXCEPT !.profiles[i] = MergeProfile(@, @, updates)]

\* Foreign keys that are not enforced
ForeignKeyRaises_Unenforced(P, session_id) == FALSE

\* conversation_turns.session_id and computed_insights.derived_from_session_id
\* are foreign keys to sessions.id: a row naming no sessions row raises
ForeignKeyRaises(P, session_id) == session_id \notin SessionRowIds(P)

add_conversation_turn(P, session_id, turn_index, role, content, extracted_entities) ==
    [P EXCEPT !.turns = Append(@, [session_id |-> session_id, turn_index |-> turn_index,
                                   role |-> role, content |-> content,
                                   extracted_entities |-> extracted_entities])]

\* The rows the SELECT of store_insight finds
InsightRows(P, user_id, insight_type, insight_key) ==
    {i \in DOMAIN P.insights :
        /\ P.insights[i].user_id = user_id
        /\ P.insights[i].insight_type = insight_type
        /\ P.insights[i].insight_key = insight_key}

\* Lines 322-328: the row found, updated
UpdateInsight(row, insight_value, numeric_value, confidence, session_id) ==
    [row EXCEPT !.insight_value = insight_value,
                !.numeric_value = numeric_value,
                !.confidence = confidence,
                !.derived_from_session_id = IF Truthy(session_id) THEN session_id ELSE @]

\* Lines 330-340: the new row
NewInsight(user_id, insight_type, insight_key, insight_value, numeric_value, confidence, session_id) ==
    [user_id |-> user_id, insight_type |-> insight_type,
     insight_key |-> insight_key, insight_value |-> insight_value,
     numeric_value |-> numeric_value, confidence |-> confidence,
     derived_from_session_id |-> session_id]

store_insight(P, user_id, insight_type, insight_key, insight_value, numeric_value, confidence, session_id) ==
    LET rows == InsightRows(P, user_id, insight_type, insight_key)
    IN  IF rows # {}
        THEN LET i == CHOOSE j \in rows : TRUE
             IN  [P EXCEPT !.insights[i] =
                     UpdateInsight(@, insight_value, numeric_value, confidence, session_id)]
        ELSE [P EXCEPT !.insights = Append(@,
                     NewInsight(user_id, insight_type, insight_key, insight_value,
                                numeric_value, confidence, session_id))]

\* get_user_insights with no insight_type: the rows of the user
get_user_insights(P, user_id) ==
    SelectSeq(P.insights, LAMBDA row : row.user_id = user_id)

\* get_full_user_context: the profile is loaded with the user; insights and
\* the 5 newest sessions only if the user exists.  An absent user or profile
\* (None) is the empty map.
get_full_user_context(P, user_id) ==
    LET found == {u \in Range(P.users) : u.id = user_id}
        profile == get_user_profile(P, user_id)
    IN  [user |-> IF found = {} THEN EmptyMap ELSE CHOOSE u \in found : TRUE,
         profile |-> IF found = {} \/ profile = {} THEN EmptyMap
                     ELSE CHOOSE row \in profile : TRUE,
         insights |-> IF found = {} THEN <<>> ELSE get_user_insights(P, user_id),
         recent_sessions |-> IF found = {} THEN <<>>
                             ELSE get_user_sessions(P, user_id, None, 5)]

update_user(P, user_id, updates) ==
    [P EXCEPT !.users = [i \in DOMAIN @ |->
        IF @[i].id = user_id THEN updates @@ @[i] ELSE @[i]]]

----------------------------------------------------------------------------
(* profile_extractor.py *)

UpperToLower == [D |-> "d"]
lower(chars) ==
    [i \in DOMAIN chars |->
        IF chars[i] \in DOMAIN UpperToLower THEN UpperToLower[chars[i]] ELSE chars[i]]

Contains(s, pat) == \E i \in 1..Len(s) : HasAt(s, i, pat)

\* Length of the run of digits that starts at position i
RECURSIVE DigitRun(_, _)
DigitRun(s, i) == IF i <= Len(s) /\ s[i] \in Digits THEN 1 + DigitRun(s, i + 1) ELSE 0

DigitValue == [c \in Digits |->
    CASE c = "0" -> 0 [] c = "1" -> 1 [] c = "2" -> 2 [] c = "3" -> 3 [] c = "4" -> 4
      [] c = "5" -> 5 [] c = "6" -> 6 [] c = "7" -> 7 [] c = "8" -> 8 [] c = "9" -> 9]

RECURSIVE ToInt(_)
ToInt(ds) == IF ds = <<>> THEN 0 ELSE 10 * ToInt(SubSeq(ds, 1, Len(ds) - 1)) + DigitValue[ds[Len(ds)]]

\* The frequency rules that need no digit: daily|every\s*day and
\* rarely|occasionally|sometimes.  The amount rule r'(\d{3,})': the leftmost run
\* of three or more digits, bucketed 100..2000 per order, 2001..50000 per month.
\* The other rules need words (times, week, rs, rupees, around, about, card,
\* the budget and objection phrases) that no utterance of Texts contains.
extract_with_rules(chars) ==
    LET text_lower == lower(chars)
        frequency ==
            IF Contains(text_lower, <<"d", "a", "i", "l", "y">>)
            THEN [swiggy_frequency |-> "daily"] ELSE EmptyMap
        starts == {i \in 1..Len(text_lower) : DigitRun(text_lower, i) >= 3}
        run == SubSeq(text_lower, Min(starts), Min(starts) + DigitRun(text_lower, Min(starts)) - 1)
        amount ==
            IF starts = {} \/ Len(run) > 5 THEN EmptyMap
            ELSE IF 100 <= ToInt(run) /\ ToInt(run) <= 2000
                 THEN [swiggy_amount_per_order |-> ToInt(run)]
            ELSE IF 2000 < ToInt(run) /\ ToInt(run) <= 50000
                 THEN [monthly_food_spend |-> ToInt(run)]
            ELSE EmptyMap
    IN  frequency @@ amount

\* EXTRACTION_PROMPT holds a literal "{}", so EXTRACTION_PROMPT.format(message=text)
\* raises IndexError, outside the try block, whenever the API key is set.
ExtractWithLlmRaises(api_key) == api_key

\* Without an API key the semantic extractor answers {}.
extract_with_llm(chars) == EmptyMap

----------------------------------------------------------------------------
(* prompts/card_details.py: calculate_savings.  weekly_orders comes in     *)
(* hundredths, as parse_frequency_to_weekly gives it.  The amounts are     *)
(* fractions <<numerator, denominator>> in lowest terms until the return   *)
(* statement rounds them.                                                  *)

RECURSIVE GCD(_, _)
GCD(a, b) == IF b = 0 THEN a ELSE GCD(b, a % b)

Fraction(n, d) == <<n \div GCD(n, d), d \div GCD(n, d)>>

\* x * k, x / k, x + y and x + k for fractions x, y and an integer k
Times(x, k) == Fraction(x[1] * (k \div GCD(k, x[2])), x[2] \div GCD(k, x[2]))
Over(x, k) == Fraction(x[1] \div GCD(x[1], k), x[2] * (k \div GCD(x[1], k)))
Plus(x, y) ==
    Fraction(x[1] * (y[2] \div GCD(x[2], y[2])) + y[1] * (x[2] \div GCD(x[2], y[2])),
             x[2] * (y[2] \div GCD(x[2], y[2])))
Shifted(x, k) == <<x[1] + k * x[2], x[2]>>
Below(x, k) == x[1] < k * x[2]

\* The keys of the returned dict whose value is rounded
Rounded ==
    {"weekly_spend", "monthly_spend", "annual_spend", "monthly_cashback", "annual_cashback",
     "monthly_delivery_savings", "annual_delivery_savings", "total_annual_savings",
     "net_first_year", "net_subsequent_years"}

\* Python's round(x) of the float computed for x = n / d: the nearest integer.
\* Where n / d lies halfway between two integers, the float holds n / d or a
\* value one rounding error beside it (4.33 and 0.10 are not binary
\* fractions), and round gives the even integer or the one on that side:
\* up says which of the two it is.
RoundFloat(n, d, up) ==
    LET q == n \div d
        r == n % d
    IN  IF 2 * r > d THEN q + 1
        ELSE IF 2 * r < d THEN q
        ELSE IF up THEN q + 1 ELSE q

round(x, up) == RoundFloat(x[1], x[2], up)

\* ties: the keys whose value, when halfway, is rounded up
calculate_savings(weekly_orders, avg_order_amount, ties) ==
    LET orders == Fraction(weekly_orders, 100)
        weekly_spend == Times(orders, avg_order_amount)
        monthly_spend == Over(Times(weekly_spend, 433), 100)
        annual_spend == Times(weekly_spend, 52)
        tenth == Over(monthly_spend, 10)
        monthly_cashback == IF Below(tenth, 1500) THEN tenth ELSE <<1500, 1>>
        annual_cashback == Times(monthly_cashback, 12)
        monthly_delivery_savings == Times(Over(Times(orders, 433), 100), 40)
        annual_delivery_savings == Times(monthly_delivery_savings, 12)
        total_annual_savings == Plus(annual_cashback, annual_delivery_savings)
        annual_fee == IF Below(annual_spend, 50000) THEN 500 ELSE 0
        signup_bonus == 500
        net_first_year == Shifted(total_annual_savings, signup_bonus - annual_fee)
        net_subsequent_years == Shifted(total_annual_savings, 0 - annual_fee)
    IN  [weekly_spend |-> round(weekly_spend, "weekly_spend" \in ties),
         monthly_spend |-> round(monthly_spend, "monthly_spend" \in ties),
         annual_spend |-> round(annual_spend, "annual_spend" \in ties),
         monthly_cashback |-> round(monthly_cashback, "monthly_cashback" \in ties),
         annual_cashback |-> round(annual_cashback, "annual_cashback" \in ties),
         monthly_delivery_savings |->
             round(monthly_delivery_savings, "monthly_delivery_savings" \in ties),
         annual_delivery_savings |->
             round(annual_delivery_savings, "annual_delivery_savings" \in ties),
         total_annual_savings |-> round(total_annual_savings, "total_annual_savings" \in ties),
         annual_fee |-> annual_fee,
         fee_waived |-> ~Below(annual_spend, 50000),
         net_first_year |-> round(net_first_year, "net_first_year" \in ties),
         net_subsequent_years |->
             round(net_subsequent_years, "net_subsequent_years" \in ties)]

----------------------------------------------------------------------------
(* memory_writer.py *)

Whitespace == {" "}

RECURSIVE SkipSpaces(_, _)
SkipSpaces(s, i) == IF i <= Len(s) /\ s[i] \in Whitespace THEN SkipSpaces(s, i + 1) ELSE i

\* r'(\d+)\s*(?:to|-)\s*(\d+)' tried at position i: <<low, high>>, or <<>>
RangeAt(s, i) ==
    LET n == DigitRun(s, i)
        sep == SkipSpaces(s, i + n)
        after == IF HasAt(s, sep, <<"t", "o">>) THEN sep + 2
                 ELSE IF HasAt(s, sep, <<"-">>) THEN sep + 1 ELSE 0
        second == SkipSpaces(s, after)
    IN  IF n > 0 /\ after > 0 /\ DigitRun(s, second) > 0
        THEN <<ToInt(SubSeq(s, i, i + n - 1)),
               ToInt(SubSeq(s, second, second + DigitRun(s, second) - 1))>>
        ELSE <<>>

\* r'(\d+)' tried at position i
NumberAt(s, i) ==
    IF DigitRun(s, i) > 0 THEN <<ToInt(SubSeq(s, i, i + DigitRun(s, i) - 1))>> ELSE <<>>

\* re.search of the two patterns: the groups of the leftmost match
GroupRange(s, i) == IF i = 0 THEN <<>> ELSE RangeAt(s, i)
GroupNumber(s, i) == IF i = 0 THEN <<>> ELSE NumberAt(s, i)

SearchRange(s) == GroupRange(s, Leftmost({i \in 1..Len(s) : RangeAt(s, i) # <<>>}))

SearchNumber(s) == GroupNumber(s, Leftmost({i \in 1..Len(s) : NumberAt(s, i) # <<>>}))

\* A parser that looks for a single number before it looks for a range
WeeklyOrders_NumberFirst(frequency, range_match, num_match) ==
    IF frequency = <<>> THEN <<>>
    ELSE IF num_match # <<>> THEN <<num_match[1] * 100>>
    ELSE IF range_match # <<>> THEN <<(range_match[1] + range_match[2]) * 50>>
    ELSE IF Contains(frequency, <<"d", "a", "i", "l", "y">>) THEN <<700>>
    ELSE IF Contains(frequency, <<"t", "w", "i", "c", "e">>)
            /\ Contains(frequency, <<"w", "e", "e", "k">>) THEN <<200>>
    ELSE <<>>

\* The weekly order count in hundredths, as <<value>>; <<>> is Python's None.
\* num / 4.33 is taken down to whole hundredths.
WeeklyOrders(frequency, range_match, num_match) ==
    IF frequency = <<>> THEN <<>>
    ELSE IF range_match # <<>> THEN <<(range_match[1] + range_match[2]) * 50>>
    ELSE IF num_match # <<>> THEN
        IF Contains(frequency, <<"w", "e", "e", "k">>) THEN <<num_match[1] * 100>>
        ELSE IF Contains(frequency, <<"m", "o", "n", "t", "h">>)
            THEN <<(num_match[1] * 10000) \div 433>>
        ELSE IF Contains(frequency, <<"d", "a", "y">>) THEN <<num_match[1] * 700>>
        ELSE <<num_match[1] * 100>>
    ELSE IF Contains(frequency, <<"d", "a", "i", "l", "y">>)
            \/ Contains(frequency, <<"e", "v", "e", "r", "y", " ", "d", "a", "y">>)
        THEN <<700>>
    ELSE IF Contains(frequency, <<"t", "w", "i", "c", "e">>)
            /\ Contains(frequency, <<"w", "e", "e", "k">>) THEN <<200>>
    ELSE IF Contains(frequency, <<"o", "n", "c", "e">>)
            /\ Contains(frequency, <<"w", "e", "e", "k">>) THEN <<100>>
    ELSE IF Contains(frequency, <<"o", "c", "c", "a", "s", "i", "o", "n", "a", "l", "l", "y">>)
            \/ Contains(frequency, <<"r", "a", "r", "e", "l", "y">>) THEN <<50>>
    ELSE <<>>

\* frequency.lower(), then the two searches
LowerFrequency(frequency) ==
    WeeklyOrders(frequency, SearchRange(frequency), SearchNumber(frequency))

parse_frequency_to_weekly(chars) == LowerFrequency(lower(chars))

\* A block that guards each call by itself: a call that fails is logged and
\* the next call is made
Do_EachGuarded(w, call, fault, raises, committed) ==
    IF fault = call THEN [w EXCEPT !.failed = TRUE]
    ELSE IF raises THEN w
    ELSE [w EXCEPT !.pg = committed, !.writes = Append(w.writes, call)]

\* One durable call of a guarded block: skipped once an earlier call has
\* raised; raises on a store fault or a violated constraint; else commits.
Do(w, call, fault, raises, committed) ==
    IF w.raised THEN w
    ELSE IF fault = call THEN [w EXCEPT !.raised = TRUE, !.failed = TRUE]
    ELSE IF raises THEN [w EXCEPT !.raised = TRUE]
    ELSE [w EXCEPT !.pg = committed, !.writes = Append(w.writes, call)]

\* A durable read of a guarded block
Read(w, call, fault) ==
    IF w.raised THEN w
    ELSE IF fault = call THEN [w EXCEPT !.raised = TRUE, !.failed = TRUE]
    ELSE w

UserUpdates(extracted) ==
    [k \in DOMAIN extracted \cap {"name", "location", "work_status"} |-> extracted[k]]

ProfileUpdates(extracted) ==
    LET has(k) == k \in DOMAIN extracted
        spending ==
            (IF has("swiggy_frequency")
                THEN [swiggy_frequency |-> extracted.swiggy_frequency] ELSE EmptyMap)
            @@ (IF has("swiggy_amount_per_order")
                THEN [avg_order_amount |-> extracted.swiggy_amount_per_order] ELSE EmptyMap)
            @@ (IF has("monthly_food_spend")
                THEN [monthly_food_spend |-> extracted.monthly_food_spend] ELSE EmptyMap)
        goals ==
            (IF has("budget_conscious") THEN [budget_conscious |-> TRUE] ELSE EmptyMap)
            @@ (IF has("savings_focused") THEN [savings_focused |-> TRUE] ELSE EmptyMap)
            @@ (IF has("financial_concerns")
                THEN [concerns |-> extracted.financial_concerns] ELSE EmptyMap)
        cards ==
            (IF has("existing_cards") THEN [cards |-> extracted.existing_cards] ELSE EmptyMap)
            @@ (IF has("card_satisfaction")
                THEN [satisfaction |-> extracted.card_satisfaction] ELSE EmptyMap)
            @@ (IF has("card_pain_points")
                THEN [pain_points |-> extracted.card_pain_points] ELSE EmptyMap)
    IN  (IF has("swiggy_frequency") \/ has("swiggy_amount_per_order") \/ has("monthly_food_spend")
            THEN [spending_patterns |-> spending] ELSE EmptyMap)
        @@ (IF has("budget_conscious") \/ has("savings_focused")
            THEN [financial_goals |-> goals] ELSE EmptyMap)
        @@ (IF has("existing_cards") \/ has("card_satisfaction")
            THEN [current_cards |-> cards] ELSE EmptyMap)
        @@ (IF has("objections_raised")
            THEN [pain_points |-> extracted.objections_raised] ELSE EmptyMap)

\* memory_writer.update_user_profile: the users row, then the profile merge
WriteProfile(w, user_id, extracted, fault) ==
    LET w1 == IF UserUpdates(extracted) # EmptyMap
              THEN Do(w, "update_user", fault, FALSE,
                      update_user(w.pg, user_id, UserUpdates(extracted)))
              ELSE w
    IN  IF ProfileUpdates(extracted) # EmptyMap
        THEN Do(w1, "update_user_profile", fault, FALSE,
                update_user_profile(w1.pg, user_id, ProfileUpdates(extracted)))
        ELSE w1

\* compute_and_store_insights: weekly_orders and avg_order_amount.  Every
\* store_insight names the Redis session id as derived_from_session_id.  The
\* computed_savings upserts (lines 200-214) come after these two and are
\* reached only when both have committed.
compute_and_store_insights(w, user_id, extracted, session_id, fault) ==
    LET w0 == Read(w, "get_user_profile", fault)
        profile == get_user_profile(w.pg, user_id)
        spending == (CHOOSE row \in profile : TRUE).spending_patterns
        frequency == IF "swiggy_frequency" \in DOMAIN extracted
                     THEN extracted.swiggy_frequency
                     ELSE Get(spending, "swiggy_frequency", "")
        weekly_orders == parse_frequency_to_weekly(Chars(frequency))
        has_weekly == weekly_orders # <<>> /\ weekly_orders # <<0>>
        avg_amount == IF "swiggy_amount_per_order" \in DOMAIN extracted
                      THEN extracted.swiggy_amount_per_order
                      ELSE Get(spending, "avg_order_amount", 0)
        w1 == IF has_weekly
              THEN Do(w0, "store_insight:weekly_orders", fault,
                      ForeignKeyRaises(w0.pg, session_id),
                      store_insight(w0.pg, user_id, "spending", "weekly_orders",
                                    weekly_orders, weekly_orders, 100, session_id))
              ELSE w0
    IN  IF w0.raised \/ profile = {} THEN w0
        ELSE IF avg_amount # 0
             THEN Do(w1, "store_insight:avg_order_amount", fault,
                     ForeignKeyRaises(w1.pg, session_id),
                     store_insight(w1.pg, user_id, "spending", "avg_order_amount",
                                   <<avg_amount * 100>>, <<avg_amount * 100>>, 100, session_id))
             ELSE w1

\* The PostgreSQL block of memory_writer_node (lines 59-96)
\* An add_conversation_turn call is made with turn_index, unless an earlier
\* call of the block has raised
Passed(w, turn_index) ==
    IF w.raised THEN w ELSE [w EXCEPT !.indexes = Append(@, turn_index)]

WriteDurable(P, state, session_id, fault) ==
    LET w0 == [pg |-> P, raised |-> FALSE, failed |-> FALSE, writes |-> <<>>, indexes |-> <<>>]
        w1 == IF state.extracted_info # EmptyMap
              THEN WriteProfile(w0, state.user_id, state.extracted_info, fault) ELSE w0
        w2 == IF Truthy(state.current_input)
              THEN Do(Passed(w1, state.turn_count * 2 - 1), "add_conversation_turn:user", fault,
                      ForeignKeyRaises(w1.pg, session_id),
                      add_conversation_turn(w1.pg, session_id, state.turn_count * 2 - 1,
                                            "user", state.current_input, state.extracted_info))
              ELSE w1
        w3 == IF Truthy(state.current_response)
              THEN Do(Passed(w2, state.turn_count * 2), "add_conversation_turn:assistant", fault,
                      ForeignKeyRaises(w2.pg, session_id),
                      add_conversation_turn(w2.pg, session_id, state.turn_count * 2,
                                            "assistant", state.current_response, EmptyMap))
              ELSE w2
    IN  IF ~Truthy(state.user_id) THEN w0
        ELSE IF w3.raised THEN w3
        ELSE compute_and_store_insights(w3, state.user_id, state.extracted_info,
                                        session_id, fault)

----------------------------------------------------------------------------
(* nodes/memory_retriever.py *)

\* str() of a number
Str(x) == <<"str", x>>

\* str(started_at)[:10]: the date of the timestamp
TicksPerDay == 2
DateOf(started_at) == <<"date", started_at \div TicksPerDay>>

\* The first n entries of a list: s[:n]
Prefix(s, n) == SubSeq(s, 1, IF Len(s) < n THEN Len(s) ELSE n)

\* Lines 71-74
BaseContext(user_context) ==
    LET user == Get(user_context, "user", EmptyMap)
    IN  [user |-> user,
         name |-> IF user # EmptyMap THEN Get(user, "name", None) ELSE None]

\* Lines 99-106 and 117-123: numeric if numeric else value, a later insight
\* of the same key replacing an earlier one
RECURSIVE InsightMap(_)
InsightMap(insights) ==
    IF insights = <<>> THEN EmptyMap
    ELSE LET insight == insights[Len(insights)]
             numeric == insight.numeric_value
         IN  [k \in {insight.insight_key} |->
                 IF numeric \notin {<<>>, <<0>>} THEN numeric ELSE insight.insight_value]
             @@ InsightMap(SubSeq(insights, 1, Len(insights) - 1))

\* Lines 80-91
DiscoveryContext(sessions) ==
    [is_returning |-> Len(sessions) > 0,
     previous_sessions |->
        [i \in DOMAIN Prefix(sessions, 2) |->
            [session_type |-> sessions[i].session_type,
             started_at |-> DateOf(sessions[i].started_at),
             summary |-> sessions[i].summary]]]

\* Lines 93-111
PitchContext(profile, insights, sessions) ==
    LET discovery_sessions == SelectSeq(sessions, LAMBDA s : s.session_type = "discovery")
    IN  [profile |-> [k \in {"spending_patterns", "food_habits", "financial_goals",
                             "current_cards"} |-> Get(profile, k, EmptyMap)],
         insights |-> InsightMap(insights)]
        @@ (IF discovery_sessions # <<>>
            THEN [discovery_summary |-> discovery_sessions[1].summary]
            ELSE EmptyMap)

\* Lines 113-138
ObjectionContext(profile, insights, sessions) ==
    [profile |-> profile,
     insights |-> InsightMap(insights),
     previous_sessions |->
        [i \in DOMAIN Prefix(sessions, 3) |->
            [session_type |-> sessions[i].session_type,
             summary |-> sessions[i].summary,
             outcome |-> sessions[i].outcome]],
     pain_points |-> Get(profile, "pain_points", <<>>),
     known_objections |-> Get(Get(profile, "preferences", EmptyMap), "objections", <<>>)]

\* A context builder that gives the discovery phase what the pitch phase gets
build_session_context_PitchInDiscovery(user_context, session_type) ==
    LET profile == Get(user_context, "profile", EmptyMap)
        insights == Get(user_context, "insights", <<>>)
        sessions == Get(user_context, "recent_sessions", <<>>)
    IN  BaseContext(user_context)
        @@ (CASE session_type = "discovery" ->
                    DiscoveryContext(sessions) @@ PitchContext(profile, insights, sessions)
              [] session_type = "pitch" -> PitchContext(profile, insights, sessions)
              [] session_type = "objection" -> ObjectionContext(profile, insights, sessions)
              [] OTHER -> EmptyMap)

build_session_context(user_context, session_type) ==
    LET profile == Get(user_context, "profile", EmptyMap)
        insights == Get(user_context, "insights", <<>>)
        sessions == Get(user_context, "recent_sessions", <<>>)
    IN  BaseContext(user_context)
        @@ (CASE session_type = "discovery" -> DiscoveryContext(sessions)
              [] session_type = "pitch" -> PitchContext(profile, insights, sessions)
              [] session_type = "objection" -> ObjectionContext(profile, insights, sessions)
              [] OTHER -> EmptyMap)

\* memory_retriever_node lines 9-58: what the node returns.  A read of the
\* durable store that raises is logged, and the context the state holds is
\* used as it is.
memory_retriever_node(state, P, raises) ==
    LET held == Get(state, "user_context", EmptyMap)
        user_context == IF raises THEN held
                        ELSE get_full_user_context(P, state.user_id) @@ held
    IN  IF ~Truthy(state.user_id) THEN EmptyMap
        ELSE [user_context |-> build_session_context(user_context, state.session_type)]

----------------------------------------------------------------------------
(* state.py, nodes/identity_node.py, nodes/response_node.py,               *)
(* nodes/profile_extractor.py: the nodes as functions of the turn's state  *)

create_initial_state(session_type) ==
    [phone_number |-> NoPhone, identity_verified |-> FALSE, user_id |-> None,
     is_new_user |-> TRUE, session_type |-> session_type, turn_count |-> 0,
     current_input |-> "", current_response |-> None, extracted_info |-> EmptyMap]

\* A turn state whose counter, with the metadata absent, continues at 1
\* instead of starting at 0
BuildState_CountFromOne(session_metadata, user_input, session_type) ==
    LET present == session_metadata # EmptyMap
    IN  [phone_number |-> IF present THEN Get(session_metadata, "phone_number", NoPhone)
                          ELSE NoPhone,
         identity_verified |-> IF present
                               THEN Get(session_metadata, "identity_verified", FALSE)
                               ELSE FALSE,
         user_id |-> IF present THEN Get(session_metadata, "user_id", None) ELSE None,
         is_new_user |-> TRUE,
         session_type |-> session_type,
         turn_count |-> IF present THEN Get(session_metadata, "turn_count", 0) ELSE 1,
         current_input |-> user_input,
         current_response |-> None,
         extracted_info |-> EmptyMap]

\* A turn state that does not take the user id from the metadata
BuildState_NoUserId(session_metadata, user_input, session_type) ==
    LET present == session_metadata # EmptyMap
    IN  [phone_number |-> IF present THEN Get(session_metadata, "phone_number", NoPhone)
                          ELSE NoPhone,
         identity_verified |-> IF present
                               THEN Get(session_metadata, "identity_verified", FALSE)
                               ELSE FALSE,
         user_id |-> None,
         is_new_user |-> TRUE,
         session_type |-> session_type,
         turn_count |-> IF present THEN Get(session_metadata, "turn_count", 0) ELSE 0,
         current_input |-> user_input,
         current_response |-> None,
         extracted_info |-> EmptyMap]

\* A runner that keeps a verified identity in the process: the turn's state
\* takes the identity of the state held from the last turn
BuildState_Cached(session_metadata, user_input, session_type) ==
    LET present == session_metadata # EmptyMap
        cached == st.identity_verified
    IN  [phone_number |-> IF cached THEN st.phone_number
                          ELSE IF present THEN Get(session_metadata, "phone_number", NoPhone)
                          ELSE NoPhone,
         identity_verified |-> IF cached THEN TRUE
                               ELSE IF present
                               THEN Get(session_metadata, "identity_verified", FALSE)
                               ELSE FALSE,
         user_id |-> IF cached THEN st.user_id
                     ELSE IF present THEN Get(session_metadata, "user_id", None) ELSE None,
         is_new_user |-> TRUE,
         session_type |-> session_type,
         turn_count |-> IF present THEN Get(session_metadata, "turn_count", 0) ELSE 0,
         current_input |-> user_input,
         current_response |-> None,
         extracted_info |-> EmptyMap]

\* process_message lines 166-186: the turn's state, rebuilt from Redis
BuildState(session_metadata, user_input, session_type) ==
    LET present == session_metadata # EmptyMap
    IN  [phone_number |-> IF present THEN Get(session_metadata, "phone_number", NoPhone)
                          ELSE NoPhone,
         identity_verified |-> IF present
                               THEN Get(session_metadata, "identity_verified", FALSE)
                               ELSE FALSE,
         user_id |-> IF present THEN Get(session_metadata, "user_id", None) ELSE None,
         is_new_user |-> TRUE,
         session_type |-> session_type,
         turn_count |-> IF present THEN Get(session_metadata, "turn_count", 0) ELSE 0,
         current_input |-> user_input,
         current_response |-> None,
         extracted_info |-> EmptyMap]

Reply(state, P, response) ==
    [state |-> [state EXCEPT !.current_response = response,
                             !.turn_count = state.turn_count + 1],
     pg |-> P, writes |-> <<>>, failed |-> FALSE]

\* identity_node lines 142-160: the store raised, continue without persistence
LookupFailed(state, P, phone_number, writes) ==
    [state |-> [state EXCEPT !.phone_number = phone_number,
                             !.identity_verified = TRUE,
                             !.is_new_user = TRUE,
                             !.current_response = FallbackWelcome,
                             !.turn_count = state.turn_count + 1],
     pg |-> P, writes |-> writes, failed |-> TRUE]

LookupDone(state, P, phone_number, user, is_new, writes) ==
    [state |-> [state EXCEPT !.phone_number = phone_number,
                             !.identity_verified = TRUE,
                             !.user_id = user.id,
                             !.is_new_user = is_new,
                             !.current_response = IF is_new THEN WelcomeNew ELSE WelcomeBack,
                             !.turn_count = state.turn_count + 1],
     pg |-> P, writes |-> writes, failed |-> FALSE]

PgFaults == {"none", "find", "insert_user", "insert_profile", "context"}

\* identity_node lines 107-160: get_or_create_user and get_full_user_context;
\* fault names the call at which the store raises, if it is reached
Lookup(state, P, phone_number, fault) ==
    LET found == find_user_by_phone(P, phone_number)
        P1 == InsertUser(P, phone_number, None)
        created == P1.users[Len(P1.users)]
        P2 == InsertProfile(P1, created.id)
    IN  IF fault = "find" THEN LookupFailed(state, P, phone_number, <<>>)
        ELSE IF found # {} THEN
            IF fault = "context" THEN LookupFailed(state, P, phone_number, <<>>)
            ELSE LookupDone(state, P, phone_number, CHOOSE u \in found : TRUE, FALSE, <<>>)
        ELSE IF fault = "insert_user" \/ UserInsertRaises(P, phone_number)
            THEN LookupFailed(state, P, phone_number, <<>>)
        ELSE IF fault = "insert_profile"
            THEN LookupFailed(state, P1, phone_number, <<"users">>)
        ELSE IF fault = "context"
            THEN LookupFailed(state, P2, phone_number, <<"users", "user_profiles">>)
        ELSE LookupDone(state, P2, phone_number, created, TRUE, <<"users", "user_profiles">>)

\* An identity_node without the branch of lines 95-105: an utterance without
\* a phone number falls through to the lookup test
identity_node_NoRePrompt(state, P, fault) ==
    LET is_first_turn == state.turn_count = 0 \/ ~Truthy(state.current_input)
        try_extract == state.phone_number = NoPhone /\ Truthy(state.current_input)
        extracted_phone == extract_phone_number(Chars(state.current_input))
        phone_number == IF try_extract THEN extracted_phone ELSE state.phone_number
    IN  IF is_first_turn /\ state.phone_number = NoPhone THEN Reply(state, P, Greeting)
        ELSE IF phone_number # NoPhone THEN Lookup(state, P, phone_number, fault)
        ELSE Reply(state, P, FallbackPrompt)

\* An identity_node that looks for a phone number in the utterance before
\* it decides to greet
identity_node_ExtractFirst(state, P, fault) ==
    LET try_extract == state.phone_number = NoPhone /\ Truthy(state.current_input)
        extracted_phone == extract_phone_number(Chars(state.current_input))
        phone_number == IF try_extract THEN extracted_phone ELSE state.phone_number
    IN  IF phone_number # NoPhone THEN Lookup(state, P, phone_number, fault)
        ELSE IF state.turn_count = 0 \/ ~Truthy(state.current_input)
            THEN Reply(state, P, Greeting)
        ELSE Reply(state, P, RePrompt)

identity_node(state, P, fault) ==
    LET is_first_turn == state.turn_count = 0 \/ ~Truthy(state.current_input)
        try_extract == state.phone_number = NoPhone /\ Truthy(state.current_input)
        extracted_phone == extract_phone_number(Chars(state.current_input))
        phone_number == IF try_extract THEN extracted_phone ELSE state.phone_number
    IN  IF is_first_turn /\ state.phone_number = NoPhone THEN Reply(state, P, Greeting)
        ELSE IF try_extract /\ extracted_phone = NoPhone THEN Reply(state, P, RePrompt)
        ELSE IF phone_number # NoPhone THEN Lookup(state, P, phone_number, fault)
        ELSE Reply(state, P, FallbackPrompt)

LlmOutcomes == {"ok", "raise", "non200"}

\* Is the model API called at all (call_openrouter returns early without a key)
LlmCalled(client, api_key) == client = "ainvoke" \/ api_key

\* call_openrouter: <<text>>, or <<>> when the call raises
call_openrouter(api_key, outcome, content) ==
    IF ~api_key THEN <<ApologyOpenRouter>>
    ELSE IF outcome = "raise" THEN <<>>
    ELSE IF outcome = "non200" THEN <<ApologyOpenRouter>>
    ELSE <<content>>

\* call_llm: a client with ainvoke answers or raises; any other client falls
\* back on call_openrouter
call_llm(client, api_key, outcome, content) ==
    IF client = "ainvoke"
    THEN IF outcome = "ok" THEN <<content>> ELSE <<>>
    ELSE call_openrouter(api_key, outcome, content)

\* response_node lines 86-108: <<state>>, or <<>> when the node raises
response_node(state, client, api_key, outcome, content) ==
    LET answer == IF client # "none"
                  THEN IF call_llm(client, api_key, outcome, content) = <<>>
                       THEN <<ApologyLlm>>
                       ELSE call_llm(client, api_key, outcome, content)
                  ELSE call_openrouter(api_key, outcome, content)
    IN  IF answer = <<>> THEN <<>>
        ELSE <<[state EXCEPT !.current_response = answer[1],
                             !.turn_count = state.turn_count + 1]>>

\* profile_extractor_node: <<state>>, or <<>> when the node raises
profile_extractor_node(state, api_key) ==
    IF ~Truthy(state.current_input) THEN <<state>>
    ELSE IF ExtractWithLlmRaises(api_key) THEN <<>>
    ELSE <<[state EXCEPT !.extracted_info =
               extract_with_llm(Chars(state.current_input))
               @@ extract_with_rules(Chars(state.current_input))]>>

----------------------------------------------------------------------------
(* graph.py: create_sales_agent, the edges of the graph *)

\* An edge after identity that always goes on to retrieve_memory
AfterIdentity_GoesOn(state) == "retrieve_memory"

AfterIdentity(state) ==
    IF Truthy(state.current_response) /\ ~state.identity_verified THEN "end"
    ELSE IF state.identity_verified THEN "retrieve_memory" ELSE "end"

NextNode(node) ==
    CASE node = "retrieve_memory" -> "generate_response"
      [] node = "generate_response" -> "extract_profile"
      [] node = "extract_profile" -> "write_memory"
      [] node = "write_memory" -> "end"

\* Where process_message continues: in the next node, or after ainvoke
Goto(target) == IF target = "end" THEN "post:turn_count" ELSE target

----------------------------------------------------------------------------
(* The state machine *)

\* Sessions that resolve a user at the same time, and the numbers they give:
\* two spellings of one number, and another number
Callers == {"a", "b"}

CallerPhones ==
    {Chars("98765 43210"), extract_phone_number(Chars("98765 43210")),
     <<"9", "1", "2", "3", "4", "5", "6", "7", "8", "9">>}

\* A session that is not in get_or_create_user
NoCall == [pc |-> "idle", phone_number |-> NoPhone, result |-> <<>>, calls |-> 0]

\* A session that is in no store_insight and no update_user_profile call
NoWrite ==
    [pc |-> "idle", op |-> "none", args |-> <<>>, seen |-> {}, raised |-> FALSE,
     alone |-> TRUE]

\* No turn is running
NoTurn ==
    [metadata |-> EmptyMap, messages |-> <<>>, live |-> {}, expired |-> {},
     first |-> FALSE, state |-> EmptyMap, stale |-> FALSE]

NoResult == [response |-> None, error |-> FALSE]

Init ==
    /\ env \in [api_key : BOOLEAN, llm_client : LlmClients]
    /\ redis = clear_session(SessionId)
    /\ expired = [keys |-> {}, ever |-> FALSE]
    /\ pg = EmptyTables
    /\ started = "no"
    /\ pc = "idle"
    /\ st = create_initial_state("discovery")
    /\ arg = [user_input |-> "", session_type |-> "discovery"]
    /\ trace = <<>>
    /\ turn0 = NoTurn
    /\ pgWrites = <<>>
    /\ indexes = <<>>
    /\ ret = NoResult
    /\ lastOp = "none"
    /\ turns = 0
    /\ faults = 0
    /\ failed = {}
    /\ callers = [c \in Callers |-> NoCall]
    /\ writers = [c \in Callers |-> NoWrite]

\* The nodes run so far in the turn, "end" when the graph has finished
Visit(nodes, node, target) ==
    IF target = "end" THEN nodes \o <<node, "end">> ELSE Append(nodes, node)

\* The environment makes a call fail (failed), within the bound on failures
Fault(step, fails) ==
    /\ fails => faults < MaxFaults
    /\ faults' = IF fails THEN faults + 1 ELSE faults
    /\ failed' = IF fails THEN failed \cup {step} ELSE failed

\* An ephemeral-store write: the new key family, and what it revives
RedisWrite(r, op) ==
    /\ redis' = r
    /\ expired' = [expired EXCEPT !.keys = @ \ LiveKeys(r)]
    /\ lastOp' = op

\* process_message lines 259-265: an exception ends the turn with the error result
Abort ==
    /\ ret' = [response |-> ApologyTurn, error |-> TRUE]
    /\ pc' = "done"

\* SalesAgentRunner.start_session (a new session id: an empty key family)
StartSession(session_type) ==
    /\ started = "no" /\ pc = "idle"
    /\ RedisWrite(store_session_metadata(Call(redis), SessionId, None, session_type,
                                         NoPhone, FALSE), "store_session_metadata")
    /\ started' = "new"
    /\ arg' = [arg EXCEPT !.session_type = session_type]
    /\ indexes' = <<>>
    /\ UNCHANGED <<env, callers, writers, pg, pc, st, trace, turn0, pgWrites, ret, turns, faults, failed>>

\* SalesAgentRunner.end_session: clear_session
EndSession ==
    /\ started # "no" /\ pc = "idle"
    /\ redis' = clear_session(SessionId)
    /\ expired' = [keys |-> {}, ever |-> FALSE]
    /\ lastOp' = "none"
    /\ started' = "no"
    /\ UNCHANGED <<env, callers, writers, pg, pc, st, arg, trace, turn0, pgWrites, indexes, ret, turns, faults, failed>>

\* The TTL of the key with the earliest deadline runs out between two turns
TtlExpire ==
    /\ pc = "idle" /\ redis.ttl # <<>>
    /\ redis' = ExpireOldest(redis)
    /\ expired' = [keys |-> expired.keys \cup {Head(redis.ttl)}, ever |-> TRUE]
    /\ UNCHANGED <<env, callers, writers, pg, started, pc, st, arg, trace, turn0, pgWrites, indexes, ret, lastOp, turns, faults, failed>>

\* A handler that starts the turn as a task of its own and returns
HandlerFree_Detached(position) == TRUE

\* llm_service.py, process_frame and _process_context: the handler of a
\* context frame awaits the process_message call it makes (lines 132, 184),
\* so the service, which alone knows the session id, takes the next context
\* frame when the call of the one before has returned
HandlerFree(position) == position = "idle"

\* process_message lines 164-199 and the graph's conditional entry point
BeginTurn(user_input) ==
    /\ started # "no" /\ HandlerFree(pc) /\ turns < MaxTurns
    /\ LET state == BuildState(get_session_metadata(redis), user_input, arg.session_type)
       IN  /\ st' = state
           /\ pc' = check_identity(state)
           /\ turn0' = [metadata |-> get_session_metadata(redis),
                        messages |-> get_messages(redis),
                        live |-> LiveKeys(redis), expired |-> expired.keys,
                        first |-> started = "new", state |-> state,
                        stale |-> st.identity_verified /\ ~state.identity_verified]
    /\ arg' = [arg EXCEPT !.user_input = user_input]
    /\ started' = "used"
    /\ trace' = <<>>
    /\ pgWrites' = <<>>
    /\ UNCHANGED indexes
    /\ turns' = turns + 1
    /\ UNCHANGED <<env, callers, writers, redis, expired, pg, ret, lastOp, faults, failed>>

IdentityNode(fault) ==
    /\ pc = "identity"
    /\ LET out == identity_node(st, pg, fault)
       IN  /\ fault # "none" => out.failed
           /\ Fault("identity", out.failed)
           /\ trace' = Visit(trace, "identity", AfterIdentity(out.state))
           /\ st' = out.state
           /\ pg' = out.pg
           /\ pgWrites' = pgWrites \o out.writes
           /\ pc' = Goto(AfterIdentity(out.state))
    /\ UNCHANGED indexes
    /\ UNCHANGED <<env, callers, writers, redis, expired, started, arg, turn0, ret, lastOp, turns>>

\* memory_retriever_node: reads only; a read that raises is logged and skipped
RetrieveMemoryNode ==
    /\ pc = "retrieve_memory"
    /\ pc' = Goto(NextNode("retrieve_memory"))
    /\ trace' = Append(trace, "retrieve_memory")
    /\ UNCHANGED <<env, callers, writers, redis, expired, pg, started, st, arg, turn0, pgWrites, indexes, ret, lastOp,
                   turns, faults, failed>>

GenerateResponseNode(outcome, content) ==
    /\ pc = "generate_response"
    /\ outcome # "ok" => LlmCalled(env.llm_client, env.api_key)
    /\ env.llm_client = "ainvoke" => outcome # "non200"
    /\ Fault("generate_response", outcome # "ok")
    /\ LET out == response_node(st, env.llm_client, env.api_key, outcome, content)
       IN  IF out = <<>>
           THEN Abort /\ UNCHANGED st
           ELSE st' = out[1] /\ pc' = Goto(NextNode("generate_response")) /\ UNCHANGED ret
    /\ trace' = Append(trace, "generate_response")
    /\ UNCHANGED <<env, callers, writers, redis, expired, pg, started, arg, turn0, pgWrites, indexes, lastOp, turns>>

ExtractProfileNode ==
    /\ pc = "extract_profile"
    /\ LET out == profile_extractor_node(st, env.api_key)
       IN  IF out = <<>>
           THEN Abort /\ UNCHANGED st
           ELSE st' = out[1] /\ pc' = Goto(NextNode("extract_profile")) /\ UNCHANGED ret
    /\ trace' = Append(trace, "extract_profile")
    /\ UNCHANGED <<env, callers, writers, redis, expired, pg, started, arg, turn0, pgWrites, indexes, lastOp, turns,
                   faults, failed>>

\* One Redis call of memory_writer_node's guarded block (lines 37-57): made
\* only if wanted; ok is whether the store answers; a failure skips to the
\* PostgreSQL block.
WriterRedisStep(wanted, ok, r, op, next) ==
    /\ ~wanted => ok
    /\ Fault("write_memory:redis", ~ok)
    /\ IF ~wanted THEN pc' = next /\ UNCHANGED <<redis, expired, lastOp>>
       ELSE IF ok THEN RedisWrite(r, op) /\ pc' = next
       ELSE pc' = "write_memory:postgres" /\ UNCHANGED <<redis, expired, lastOp>>

WriteMemoryUser(ok) ==
    /\ pc = "write_memory"
    /\ trace' = Append(trace, "write_memory")
    /\ WriterRedisStep(Truthy(st.current_input), ok,
                       add_message(Call(redis), "user", st.current_input),
                       "add_message", "write_memory:assistant")
    /\ UNCHANGED <<env, callers, writers, pg, started, st, arg, turn0, pgWrites, indexes, ret, turns>>

WriteMemoryAssistant(ok) ==
    /\ pc = "write_memory:assistant"
    /\ WriterRedisStep(Truthy(st.current_response), ok,
                       add_message(Call(redis), "assistant", st.current_response),
                       "add_message", "write_memory:metadata")
    /\ UNCHANGED <<env, callers, writers, pg, started, st, arg, trace, turn0, pgWrites, indexes, ret, turns>>

WriteMemoryMetadata(ok) ==
    /\ pc = "write_memory:metadata"
    /\ WriterRedisStep(TRUE, ok,
                       update_session_metadata(Call(redis),
                           [turn_count |-> st.turn_count,
                            identity_verified |-> st.identity_verified]),
                       "update_session_metadata", "write_memory:postgres")
    /\ UNCHANGED <<env, callers, writers, pg, started, st, arg, trace, turn0, pgWrites, indexes, ret, turns>>

WriterFaults == {"none", "update_user", "update_user_profile", "add_conversation_turn:user",
                 "add_conversation_turn:assistant", "get_user_profile",
                 "store_insight:weekly_orders", "store_insight:avg_order_amount"}

\* memory_writer_node lines 59-98
WriteMemoryPostgres(fault) ==
    /\ pc = "write_memory:postgres"
    /\ LET out == WriteDurable(pg, st, SessionId, fault)
       IN  /\ fault # "none" => out.failed
           /\ Fault("write_memory:postgres", out.failed)
           /\ pg' = out.pg
           /\ pgWrites' = pgWrites \o out.writes
           /\ indexes' = indexes \o out.indexes
    /\ pc' = Goto(NextNode("write_memory"))
    /\ trace' = Append(trace, NextNode("write_memory"))
    /\ UNCHANGED <<env, callers, writers, redis, expired, started, st, arg, turn0, ret, lastOp, turns>>

\* One Redis call of process_message after the graph (lines 208-228): made
\* only if wanted; a failure is an exception of the turn.
PostRedisStep(wanted, ok, r, op, next) ==
    /\ ~wanted => ok
    /\ Fault("process_message:redis", ~ok)
    /\ IF ~wanted THEN pc' = next /\ UNCHANGED <<redis, expired, lastOp, ret>>
       ELSE IF ok THEN RedisWrite(r, op) /\ pc' = next /\ UNCHANGED ret
       ELSE Abort /\ UNCHANGED <<redis, expired, lastOp>>

\* process_message lines 205-213
PostTurnCount(ok) ==
    /\ pc = "post:turn_count"
    /\ PostRedisStep(TRUE, ok,
                     update_session_metadata(Call(redis), [turn_count |-> st.turn_count]),
                     "update_session_metadata", "post:user")
    /\ UNCHANGED <<env, callers, writers, pg, started, st, arg, trace, turn0, pgWrites, indexes, turns>>

\* process_message lines 215-217
PostUserMessage(ok) ==
    /\ pc = "post:user"
    /\ PostRedisStep(Truthy(arg.user_input), ok,
                     add_message(Call(redis), "user", arg.user_input),
                     "add_message", "post:assistant")
    /\ UNCHANGED <<env, callers, writers, pg, started, st, arg, trace, turn0, pgWrites, indexes, turns>>

\* process_message lines 218-219
PostAssistantMessage(ok) ==
    /\ pc = "post:assistant"
    /\ PostRedisStep(Truthy(st.current_response), ok,
                     add_message(Call(redis), "assistant", st.current_response),
                     "add_message", "post:identity")
    /\ UNCHANGED <<env, callers, writers, pg, started, st, arg, trace, turn0, pgWrites, indexes, turns>>

\* process_message lines 221-228
PostIdentity(ok) ==
    /\ pc = "post:identity"
    /\ PostRedisStep(st.identity_verified, ok,
                     update_session_metadata(Call(redis),
                         [identity_verified |-> TRUE, user_id |-> st.user_id,
                          phone_number |-> st.phone_number]),
                     "update_session_metadata", "post:session")
    /\ UNCHANGED <<env, callers, writers, pg, started, st, arg, trace, turn0, pgWrites, indexes, turns>>

SessionFaults == {"none", "get_user_sessions", "create_session"}

\* process_message lines 230-257: the durable session record, then the result
PostSession(fault) ==
    /\ pc = "post:session"
    /\ LET wanted == st.identity_verified /\ Truthy(st.user_id)
           create == wanted /\ st.turn_count <= 1
           fails == \/ wanted /\ fault = "get_user_sessions"
                    \/ create /\ fault = "create_session"
       IN  /\ fault # "none" => fails
           /\ Fault("process_message:postgres", fails)
           /\ IF fails
              THEN Abort /\ UNCHANGED <<pg, pgWrites, indexes>>
              ELSE /\ pg' = IF create THEN create_session(pg, st.user_id, arg.session_type)
                            ELSE pg
                   /\ pgWrites' = IF create THEN Append(pgWrites, "create_session")
                                  ELSE pgWrites
                   /\ ret' = [response |-> st.current_response, error |-> FALSE]
                   /\ pc' = "done"
    /\ UNCHANGED <<env, callers, writers, redis, expired, started, st, arg, trace, turn0, lastOp, turns, indexes>>

\* The call has returned.  The state of its result (line 256) is what the
\* process still holds of the turn.
Return ==
    /\ pc = "done"
    /\ pc' = "idle"
    /\ UNCHANGED st
    /\ arg' = [arg EXCEPT !.user_input = ""]
    /\ trace' = <<>>
    /\ turn0' = NoTurn
    /\ pgWrites' = <<>>
    /\ UNCHANGED indexes
    /\ ret' = NoResult
    /\ redis' = Call(redis)
    /\ lastOp' = "none"
    /\ failed' = {}
    /\ UNCHANGED <<env, callers, writers, expired, pg, started, turns, faults>>

\* get_agent_runner after a process restart: a new SalesAgentRunner, which
\* holds nothing of the turns the old one ran; the stores are as they were
Restart ==
    /\ pc = "idle"
    /\ st # create_initial_state(arg.session_type)
    /\ st' = create_initial_state(arg.session_type)
    /\ UNCHANGED <<env, callers, writers, redis, expired, pg, started, pc, arg, trace, turn0,
                   pgWrites, indexes, ret, lastOp, turns, faults, failed>>

Next ==
    \/ \E session_type \in SessionTypes : StartSession(session_type)
    \/ EndSession
    \/ TtlExpire
    \/ \E user_input \in Texts : BeginTurn(user_input)
    \/ \E fault \in PgFaults : IdentityNode(fault)
    \/ RetrieveMemoryNode
    \/ \E outcome \in LlmOutcomes, content \in LlmReplies : GenerateResponseNode(outcome, content)
    \/ ExtractProfileNode
    \/ \E ok \in BOOLEAN : WriteMemoryUser(ok)
    \/ \E ok \in BOOLEAN : WriteMemoryAssistant(ok)
    \/ \E ok \in BOOLEAN : WriteMemoryMetadata(ok)
    \/ \E fault \in WriterFaults : WriteMemoryPostgres(fault)
    \/ \E ok \in BOOLEAN : PostTurnCount(ok)
    \/ \E ok \in BOOLEAN : PostUserMessage(ok)
    \/ \E ok \in BOOLEAN : PostAssistantMessage(ok)
    \/ \E ok \in BOOLEAN : PostIdentity(ok)
    \/ \E fault \in SessionFaults : PostSession(fault)
    \/ Return
    \/ Restart

Spec == Init /\ [][Next]_vars

----------------------------------------------------------------------------
(* get_or_create_user called by concurrent sessions: every await is a point *)
(* where another session's call can run, and every commit is a transaction *)
(* of its own.                                                              *)

Others == <<env, redis, expired, started, pc, st, arg, trace, turn0, pgWrites, indexes, ret,
            lastOp, turns, faults, failed, writers>>

\* identity_node line 109: the call starts
GetOrCreateUser(c, phone_number) ==
    /\ callers[c].pc = "idle" /\ callers[c].calls < MaxCalls
    /\ callers' = [callers EXCEPT ![c] = [pc |-> "find_user_by_phone",
                                          phone_number |-> phone_number,
                                          result |-> <<>>,
                                          calls |-> callers[c].calls + 1]]
    /\ UNCHANGED <<pg, Others>>

\* get_or_create_user lines 127-129: the SELECT, and the return of a user found
FindUserByPhone(c) ==
    /\ callers[c].pc = "find_user_by_phone"
    /\ LET found == find_user_by_phone(pg, callers[c].phone_number)
       IN  callers' = [callers EXCEPT ![c] =
               IF found # {}
               THEN [@ EXCEPT !.pc = "done",
                              !.result = <<(CHOOSE u \in found : TRUE).id, FALSE>>]
               ELSE [@ EXCEPT !.pc = "create_user"]]
    /\ UNCHANGED <<pg, Others>>

\* create_user lines 94-101: INSERT INTO users and commit; the UNIQUE
\* constraint on phone_number_hash makes the commit of a second row raise
CreateUser(c) ==
    /\ callers[c].pc = "create_user"
    /\ IF UserInsertRaises(pg, callers[c].phone_number)
       THEN /\ callers' = [callers EXCEPT ![c].pc = "done", ![c].result = <<"raised">>]
            /\ UNCHANGED pg
       ELSE /\ pg' = InsertUser(pg, callers[c].phone_number, None)
            /\ callers' = [callers EXCEPT ![c].pc = "create_profile",
                                          ![c].result = <<UserIds[Len(pg.users) + 1], TRUE>>]
    /\ UNCHANGED Others

\* create_user lines 103-109: the empty profile, committed, and the return
CreateProfile(c) ==
    /\ callers[c].pc = "create_profile"
    /\ pg' = InsertProfile(pg, callers[c].result[1])
    /\ callers' = [callers EXCEPT ![c].pc = "done"]
    /\ UNCHANGED Others

\* The caller goes on with the user it got, or with the exception
ReturnUser(c) ==
    /\ callers[c].pc = "done"
    /\ callers' = [callers EXCEPT ![c].pc = "idle"]
    /\ UNCHANGED <<pg, Others>>

NextUsers ==
    \/ \E c \in Callers, phone_number \in CallerPhones : GetOrCreateUser(c, phone_number)
    \/ \E c \in Callers : FindUserByPhone(c)
    \/ \E c \in Callers : CreateUser(c)
    \/ \E c \in Callers : CreateProfile(c)
    \/ \E c \in Callers : ReturnUser(c)

InitUsers == Init /\ env = [api_key |-> FALSE, llm_client |-> "none"]

SpecUsers == InitUsers /\ [][NextUsers]_vars

----------------------------------------------------------------------------
(* store_insight called by concurrent sessions of one user: a call is a    *)
(* SELECT, then a commit that updates the row the SELECT found or inserts  *)
(* a new one; another session's call can run between the two.              *)

\* The store the sessions share: one user with the empty profile, and a
\* sessions row of that user
StoreUser == UserIds[1]

\* A user whose profile was never committed (create_user failed between its
\* two commits), and a user as create_user leaves it
UserOnlyStore ==
    InsertUser(EmptyTables, extract_phone_number(Chars("98765 43210")), None)

ProfileStore == InsertProfile(UserOnlyStore, StoreUser)

SharedStore == create_session(ProfileStore, StoreUser, "discovery")

\* No session is in a turn
Quiet ==
    /\ redis = clear_session(SessionId)
    /\ expired = [keys |-> {}, ever |-> FALSE]
    /\ started = "no"
    /\ arg = [user_input |-> "", session_type |-> "discovery"]
    /\ trace = <<>>
    /\ turn0 = NoTurn
    /\ ret = NoResult
    /\ lastOp = "none"
    /\ turns = 0
    /\ faults = 0
    /\ failed = {}
    /\ callers = [c \in Callers |-> NoCall]

OthersW == <<env, redis, expired, started, pc, st, arg, trace, turn0, pgWrites, indexes, ret,
             lastOp, turns, faults, failed, callers>>

\* The arguments of the calls: the insight of compute_and_store_insights
\* lines 179-186, with the session of the sessions row, no session, or the
\* id of the Redis session (which names no sessions row)
InsightCalls ==
    {[insight_type |-> "spending", insight_key |-> "weekly_orders",
      insight_value |-> v, numeric_value |-> v, confidence |-> 100, session_id |-> d] :
        v \in {<<700>>, <<350>>}, d \in {None, DbSessionIds[1], SessionId}}

\* The call is between its first and its last statement
Busy(w) == w.pc \notin {"idle", "done"}

\* A call starts, once the callers of the calls that are over have gone on.
\* It runs alone unless the call of another session is under way; a call
\* that is under way no longer runs alone.
BeginWrite(c, op, args) ==
    /\ writers[c].pc = "idle"
    /\ \A e \in Callers : writers[e].pc # "done"
    /\ writers' = [d \in Callers |->
           IF d = c
           THEN [pc |-> "select", op |-> op, args |-> args, seen |-> {},
                 raised |-> FALSE,
                 alone |-> \A e \in Callers \ {c} : ~Busy(writers[e])]
           ELSE IF Busy(writers[d]) THEN [writers[d] EXCEPT !.alone = FALSE]
           ELSE writers[d]]
    /\ UNCHANGED <<pg, OthersW>>

StoreInsight(c, args) == BeginWrite(c, "store_insight", args)

\* store_insight lines 313-320: the SELECT; scalar_one_or_none raises
\* MultipleResultsFound when more than one row matches
StoreInsightSelect(c) ==
    /\ writers[c].pc = "select" /\ writers[c].op = "store_insight"
    /\ LET a == writers[c].args
           rows == InsightRows(pg, StoreUser, a.insight_type, a.insight_key)
       IN  writers' = [writers EXCEPT ![c] =
               [@ EXCEPT !.seen = rows,
                         !.raised = Cardinality(rows) > 1,
                         !.pc = IF Cardinality(rows) > 1 THEN "done" ELSE "commit"]]
    /\ UNCHANGED <<pg, OthersW>>

\* store_insight lines 322-342: the row found is updated, or a new row is
\* inserted; the commit raises when derived_from_session_id names no
\* sessions row
StoreInsightCommit(c) ==
    /\ writers[c].pc = "commit" /\ writers[c].op = "store_insight"
    /\ LET a == writers[c].args
           rows == writers[c].seen
           raises == Truthy(a.session_id) /\ ForeignKeyRaises(pg, a.session_id)
       IN  /\ pg' = IF raises THEN pg
                    ELSE IF rows # {}
                    THEN [pg EXCEPT !.insights[CHOOSE i \in rows : TRUE] =
                             UpdateInsight(@, a.insight_value, a.numeric_value,
                                           a.confidence, a.session_id)]
                    ELSE [pg EXCEPT !.insights = Append(@,
                             NewInsight(StoreUser, a.insight_type, a.insight_key,
                                        a.insight_value, a.numeric_value,
                                        a.confidence, a.session_id))]
           /\ writers' = [writers EXCEPT ![c].pc = "done", ![c].raised = raises]
    /\ UNCHANGED OthersW

\* The caller goes on
ReturnWrite(c) ==
    /\ writers[c].pc = "done"
    /\ writers' = [writers EXCEPT ![c] = NoWrite]
    /\ UNCHANGED <<pg, OthersW>>

NextInsights ==
    \/ \E c \in Callers, args \in InsightCalls : StoreInsight(c, args)
    \/ \E c \in Callers : StoreInsightSelect(c)
    \/ \E c \in Callers : StoreInsightCommit(c)
    \/ \E c \in Callers : ReturnWrite(c)

InitInsights ==
    /\ Quiet
    /\ env = [api_key |-> FALSE, llm_client |-> "none"]
    /\ pg = SharedStore
    /\ pc = "idle"
    /\ st = create_initial_state("discovery")
    /\ pgWrites = <<>>
    /\ indexes = <<>>
    /\ writers = [c \in Callers |-> NoWrite]

SpecInsights == InitInsights /\ [][NextInsights]_vars

----------------------------------------------------------------------------
(* update_user_profile called by concurrent sessions of one user: a SELECT *)
(* of the profile row, the merge into the row loaded, and the commit.      *)

\* Fact sets of one utterance (extract_with_rules), and the profile updates
\* memory_writer.update_user_profile makes of them.  Two phrases of the
\* objection table name the same objection, so a list can hold it twice.
FactSets ==
    {[swiggy_frequency |-> "daily"],
     [swiggy_amount_per_order |-> 300],
     [swiggy_frequency |-> "occasionally", objections_raised |-> <<"fee_concern">>],
     [objections_raised |-> <<"overspending_worry", "overspending_worry">>]}

Deltas == {ProfileUpdates(extracted) : extracted \in FactSets}

UpdateUserProfile(c, updates) == BeginWrite(c, "update_user_profile", updates)

\* update_user_profile lines 163-166: the SELECT
UpdateUserProfileSelect(c) ==
    /\ writers[c].pc = "select" /\ writers[c].op = "update_user_profile"
    /\ writers' = [writers EXCEPT ![c].seen = get_user_profile(pg, StoreUser),
                                  ![c].pc = "commit"]
    /\ UNCHANGED <<pg, OthersW>>

\* user_profiles.user_id is UNIQUE: the INSERT of a second row raises
ProfileInsertRaises(P, user_id) == get_user_profile(P, user_id) # {}

\* update_user_profile lines 168-190: the INSERT of a new row, or the UPDATE
\* of the columns that were merged into the row loaded
UpdateUserProfileCommit(c) ==
    /\ writers[c].pc = "commit" /\ writers[c].op = "update_user_profile"
    /\ LET updates == writers[c].args
           loaded == writers[c].seen
           raises == loaded = {} /\ ProfileInsertRaises(pg, StoreUser)
           i == CHOOSE j \in DOMAIN pg.profiles : pg.profiles[j].user_id = StoreUser
       IN  /\ pg' = IF raises THEN pg
                    ELSE IF loaded = {}
                    THEN [pg EXCEPT !.profiles = Append(@, NewProfile(StoreUser, updates))]
                    ELSE [pg EXCEPT !.profiles[i] =
                             MergeProfile(@, CHOOSE row \in loaded : TRUE, updates)]
           /\ writers' = [writers EXCEPT ![c].pc = "done", ![c].raised = raises]
    /\ UNCHANGED OthersW

NextProfiles ==
    \/ \E c \in Callers, updates \in Deltas : UpdateUserProfile(c, updates)
    \/ \E c \in Callers : UpdateUserProfileSelect(c)
    \/ \E c \in Callers : UpdateUserProfileCommit(c)
    \/ \E c \in Callers : ReturnWrite(c)

InitProfiles ==
    /\ Quiet
    /\ env = [api_key |-> FALSE, llm_client |-> "none"]
    /\ pg \in {SharedStore, UserOnlyStore}
    /\ pc = "idle"
    /\ st = create_initial_state("discovery")
    /\ pgWrites = <<>>
    /\ indexes = <<>>
    /\ writers = [c \in Callers |-> NoWrite]

SpecProfiles == InitProfiles /\ [][NextProfiles]_vars

----------------------------------------------------------------------------
(* The PostgreSQL block of memory_writer_node in a verified turn, on the   *)
(* stores that earlier turns of the user leave                             *)

\* The stores: the user without or with the empty profile, and with the
\* profile an earlier turn has merged a fact set into.  No store has a
\* sessions row.
WriterStores ==
    {UserOnlyStore, ProfileStore}
        \cup {update_user_profile(ProfileStore, StoreUser, updates) : updates \in Deltas}

\* The state of a verified turn when the graph enters retrieve_memory
VerifiedStates ==
    {[create_initial_state(session_type) EXCEPT
          !.phone_number = extract_phone_number(Chars("98765 43210")),
          !.identity_verified = TRUE,
          !.user_id = StoreUser,
          !.turn_count = turn_count,
          !.current_input = user_input] :
        session_type \in SessionTypes, turn_count \in 1..2, user_input \in Texts}

\* The state when the graph enters write_memory: generate_response and
\* extract_profile have run (no API key is set)
WriterStates(client) ==
    {profile_extractor_node(
         response_node(state, client, FALSE, outcome, content)[1], FALSE)[1] :
        state \in VerifiedStates, outcome \in {"ok", "raise"}, content \in LlmReplies}

InitWriter ==
    /\ Quiet
    /\ env \in [api_key : {FALSE}, llm_client : LlmClients]
    /\ pg \in WriterStores
    /\ pc = "write_memory:postgres"
    /\ st \in WriterStates(env.llm_client)
    /\ pgWrites = <<>>
    /\ indexes = <<>>
    /\ writers = [c \in Callers |-> NoWrite]

NextWriter == \E fault \in WriterFaults : WriteMemoryPostgres(fault)

SpecWriter == InitWriter /\ [][NextWriter]_vars

----------------------------------------------------------------------------
(* RedisMemory.add_message called again and again on one session, with no  *)
(* TTL running out.  ret is what the last call returned: the count, or an  *)
(* error when Redis failed.                                                *)

Roles == {"user", "assistant"}

RedisFaults == {"none", "rpush", "hset"}

\* One call: Redis may fail at the RPUSH, which leaves the list as it is, or
\* at the HSET of update_session_metadata, which leaves the list pushed and
\* the metadata as it was
AddMessage(role, content, fault) ==
    /\ Len(redis.messages) < MaxMessages
    /\ Fault("add_message", fault # "none")
    /\ IF fault = "rpush"
       THEN UNCHANGED <<redis, expired, lastOp>>
       ELSE IF fault = "hset"
       THEN RedisWrite(Pushed(Call(redis), role, content), "add_message")
       ELSE RedisWrite(add_message(Call(redis), role, content), "add_message")
    /\ ret' = IF fault = "none"
              THEN [response |-> PushCount(redis), error |-> FALSE]
              ELSE [response |-> None, error |-> TRUE]
    /\ turns' = turns + 1
    /\ UNCHANGED <<env, callers, writers, pg, started, pc, st, arg, trace, turn0, pgWrites, indexes>>

NextMessages ==
    \E role \in Roles, content \in Texts \cup LlmReplies, fault \in RedisFaults :
        AddMessage(role, content, fault)

\* A session id nothing was stored under, or a session start_session made
InitMessages ==
    /\ env = [api_key |-> FALSE, llm_client |-> "none"]
    /\ redis \in {clear_session(SessionId),
                  Call(store_session_metadata(clear_session(SessionId), SessionId, None,
                                              "discovery", NoPhone, FALSE))}
    /\ expired = [keys |-> {}, ever |-> FALSE]
    /\ pg = EmptyTables
    /\ started = "new"
    /\ pc = "idle"
    /\ st = create_initial_state("discovery")
    /\ arg = [user_input |-> "", session_type |-> "discovery"]
    /\ trace = <<>>
    /\ turn0 = NoTurn
    /\ pgWrites = <<>>
    /\ indexes = <<>>
    /\ ret = NoResult
    /\ lastOp = "none"
    /\ turns = 0
    /\ faults = 0
    /\ failed = {}
    /\ callers = [c \in Callers |-> NoCall]
    /\ writers = [c \in Callers |-> NoWrite]

SpecMessages == InitMessages /\ [][NextMessages]_vars

----------------------------------------------------------------------------
(* memory_retriever_node in a verified turn, on the durable store that     *)
(* the user's conversations have left: sessions are created and ended and  *)
(* insights stored while the turn waits to read.  Here the state carries   *)
(* the user_context the node returns; Spec leaves it out of the state,     *)
(* where only the prompt of generate_response reads it.                    *)

ContextTypes == {"discovery", "pitch", "objection", "closing"}

SessionSummaries == <<"summary 1", "summary 2", "summary 3", "summary 4", "summary 5",
                      "summary 6", "summary 7", "summary 8">>

\* The profile a turn has merged facts into
FilledProfileStore ==
    update_user_profile(ProfileStore, StoreUser,
        ProfileUpdates([swiggy_frequency |-> "occasionally",
                        objections_raised |-> <<"fee_concern">>]))

\* The insights compute_and_store_insights writes (numeric_value set, 0 for a
\* waived annual fee), and one stored without a numeric value
InsightStore(P) ==
    LET P1 == store_insight(P, StoreUser, "spending", "weekly_orders",
                            Str(<<70>>), <<70>>, 100, None)
        P2 == store_insight(P1, StoreUser, "computed_savings", "annual_fee",
                            Str(<<0>>), <<0>>, 100, None)
    IN  store_insight(P2, StoreUser, "preference", "favourite_cuisine",
                      Str(<<3>>), <<>>, 100, None)

ContextStores ==
    {UserOnlyStore, ProfileStore, FilledProfileStore, InsightStore(FilledProfileStore)}

\* create_session for the user
CreateDbSession(session_type) ==
    /\ pc = "retrieve_memory"
    /\ Len(pg.sessions) < MaxSessions
    /\ \A i \in DOMAIN pg.sessions : pg.sessions[i].ended_at # None
    /\ pg' = create_session(pg, StoreUser, session_type)
    /\ UNCHANGED <<env, callers, writers, redis, expired, started, pc, st, arg, trace, turn0,
                   pgWrites, indexes, ret, lastOp, turns, faults, failed>>

\* end_session for the session last created
EndDbSession(outcome) ==
    /\ pc = "retrieve_memory"
    /\ pg.sessions # <<>>
    /\ pg.sessions[Len(pg.sessions)].ended_at = None
    /\ pg' = end_session(pg, pg.sessions[Len(pg.sessions)].id,
                         SessionSummaries[Len(pg.sessions)], outcome)
    /\ UNCHANGED <<env, callers, writers, redis, expired, started, pc, st, arg, trace, turn0,
                   pgWrites, indexes, ret, lastOp, turns, faults, failed>>

\* The node runs and its return value is merged into the state
RetrieveContext(raises) ==
    /\ pc = "retrieve_memory"
    /\ Fault("retrieve_memory", raises)
    /\ st' = memory_retriever_node(st, pg, raises) @@ st
    /\ pc' = Goto(NextNode("retrieve_memory"))
    /\ trace' = Append(trace, "retrieve_memory")
    /\ UNCHANGED <<env, callers, writers, redis, expired, pg, started, arg, turn0,
                   pgWrites, indexes, ret, lastOp, turns>>

NextContext ==
    \/ \E session_type \in ContextTypes \ {"closing"} : CreateDbSession(session_type)
    \/ \E outcome \in {"interested"} : EndDbSession(outcome)
    \/ \E raises \in BOOLEAN : RetrieveContext(raises)

InitContext ==
    /\ Quiet
    /\ env = [api_key |-> FALSE, llm_client |-> "none"]
    /\ pg \in ContextStores
    /\ pc = "retrieve_memory"
    /\ \E session_type \in ContextTypes :
          st = [create_initial_state(session_type) EXCEPT
                    !.phone_number = extract_phone_number(Chars("98765 43210")),
                    !.identity_verified = TRUE,
                    !.user_id = StoreUser,
                    !.turn_count = 2,
                    !.current_input = "Daily"]
    /\ pgWrites = <<>>
    /\ indexes = <<>>
    /\ writers = [c \in Callers |-> NoWrite]

SpecContext == InitContext /\ [][NextContext]_vars

----------------------------------------------------------------------------
(* A session after its first turn: start_session, then process_message     *)
(* with an empty utterance, which the greeting answered.  MaxTurns more     *)
(* turns follow.                                                           *)

GreetedSession ==
    Call(add_message(
        Call(update_session_metadata(
            Call(store_session_metadata(clear_session(SessionId), SessionId, None,
                                        "discovery", NoPhone, FALSE)),
            [turn_count |-> 1])),
        "assistant", Greeting))

InitSession ==
    /\ env \in [api_key : BOOLEAN, llm_client : LlmClients]
    /\ redis = GreetedSession
    /\ expired = [keys |-> {}, ever |-> FALSE]
    /\ pg = EmptyTables
    /\ started = "used"
    /\ pc = "idle"
    /\ st = create_initial_state("discovery")
    /\ arg = [user_input |-> "", session_type |-> "discovery"]
    /\ trace = <<>>
    /\ turn0 = NoTurn
    /\ pgWrites = <<>>
    /\ indexes = <<>>
    /\ ret = NoResult
    /\ lastOp = "none"
    /\ turns = 0
    /\ faults = 0
    /\ failed = {}
    /\ callers = [c \in Callers |-> NoCall]
    /\ writers = [c \in Callers |-> NoWrite]

SpecSession == InitSession /\ [][Next]_vars

----------------------------------------------------------------------------
(* extract_phone_number on the spellings of one number: the caller's       *)
(* number, with or without the country prefix, and separators put between   *)
(* its digits one at a time.  callers["a"].phone_number is the number the   *)
(* caller means, arg.user_input the characters of the utterance, and        *)
(* st.phone_number what the function returned for it.                       *)

MaxSeparators == 2

PhoneNumbers ==
    {<<"9", "8", "7", "6", "5", "4", "3", "2", "1", "0">>,
     <<"9", "1", "9", "8", "7", "6", "5", "4", "3", "2">>,
     <<"5", "8", "7", "6", "5", "4", "3", "2", "1", "0">>}

CountryPrefixes == {<<>>, <<"+", "9", "1">>, <<"9", "1">>}

\* Separators a caller's text may hold: three of those line 23 removes, and
\* one it does not
Inserted == {" ", "-", ".", "/"}

DigitsIn(chars) == Len(SelectSeq(chars, LAMBDA c : c \in Digits))
SeparatorsIn(chars) == Len(SelectSeq(chars, LAMBDA c : c \notin Digits \cup {"+"}))

\* The places between two digits of the number, and the place between the
\* prefix and the number: i characters stand before the place
Between(chars, i) ==
    /\ i \in 1..(Len(chars) - 1)
    /\ DigitsIn(SubSeq(chars, 1, i)) >= IF DigitsIn(chars) = 10 THEN 1 ELSE 2
    /\ DigitsIn(SubSeq(chars, i + 1, Len(chars))) >= 1

InsertSeparator(i, sep) ==
    /\ pc = "idle"
    /\ SeparatorsIn(arg.user_input) < MaxSeparators
    /\ Between(arg.user_input, i)
    /\ arg' = [arg EXCEPT !.user_input =
                   SubSeq(@, 1, i) \o <<sep>> \o SubSeq(@, i + 1, Len(@))]
    /\ UNCHANGED <<env, callers, writers, redis, expired, pg, started, pc, st, trace, turn0,
                   pgWrites, indexes, ret, lastOp, turns, faults, failed>>

ExtractPhone ==
    /\ pc = "idle"
    /\ st' = [st EXCEPT !.phone_number = extract_phone_number(arg.user_input)]
    /\ pc' = "done"
    /\ UNCHANGED <<env, callers, writers, redis, expired, pg, started, arg, trace, turn0,
                   pgWrites, indexes, ret, lastOp, turns, faults, failed>>

NextPhone ==
    \/ \E i \in 1..(12 + MaxSeparators), sep \in Inserted : InsertSeparator(i, sep)
    \/ ExtractPhone

InitPhone ==
    /\ env = [api_key |-> FALSE, llm_client |-> "none"]
    /\ redis = clear_session(SessionId)
    /\ expired = [keys |-> {}, ever |-> FALSE]
    /\ pg = EmptyTables
    /\ started = "no"
    /\ pc = "idle"
    /\ st = create_initial_state("discovery")
    /\ \E number \in PhoneNumbers, prefix \in CountryPrefixes :
          /\ arg = [user_input |-> prefix \o number, session_type |-> "discovery"]
          /\ callers = [c \in Callers |->
                           IF c = "a" THEN [NoCall EXCEPT !.phone_number = number]
                           ELSE NoCall]
    /\ trace = <<>>
    /\ turn0 = NoTurn
    /\ pgWrites = <<>>
    /\ indexes = <<>>
    /\ ret = NoResult
    /\ lastOp = "none"
    /\ turns = 0
    /\ faults = 0
    /\ failed = {}
    /\ writers = [c \in Callers |-> NoWrite]

SpecPhone == InitPhone /\ [][NextPhone]_vars

----------------------------------------------------------------------------
(* parse_frequency_to_weekly on the phrases a caller's answers are made    *)
(* of: the words are said one after the other, arg.user_input is the        *)
(* phrase so far, and ret.response what the function returned for it.      *)

MaxWords == 3

Words == {"3-4", "5", "times", "per week", "daily", "twice", "a week", "sometimes"}

SayWord(word) ==
    /\ pc = "idle"
    /\ turns < MaxWords
    /\ arg' = [arg EXCEPT !.user_input =
                   IF @ = <<>> THEN Chars(word) ELSE @ \o <<" ">> \o Chars(word)]
    /\ turns' = turns + 1
    /\ UNCHANGED <<env, callers, writers, redis, expired, pg, started, pc, st, trace, turn0,
                   pgWrites, indexes, ret, lastOp, faults, failed>>

ParseFrequency ==
    /\ pc = "idle"
    /\ ret' = [response |-> parse_frequency_to_weekly(arg.user_input), error |-> FALSE]
    /\ pc' = "done"
    /\ UNCHANGED <<env, callers, writers, redis, expired, pg, started, st, arg, trace, turn0,
                   pgWrites, indexes, lastOp, turns, faults, failed>>

NextFrequency ==
    \/ \E word \in Words : SayWord(word)
    \/ ParseFrequency

InitFrequency ==
    /\ env = [api_key |-> FALSE, llm_client |-> "none"]
    /\ redis = clear_session(SessionId)
    /\ expired = [keys |-> {}, ever |-> FALSE]
    /\ pg = EmptyTables
    /\ started = "no"
    /\ pc = "idle"
    /\ st = create_initial_state("discovery")
    /\ arg = [user_input |-> <<>>, session_type |-> "discovery"]
    /\ trace = <<>>
    /\ turn0 = NoTurn
    /\ pgWrites = <<>>
    /\ indexes = <<>>
    /\ ret = NoResult
    /\ lastOp = "none"
    /\ turns = 0
    /\ faults = 0
    /\ failed = {}
    /\ callers = [c \in Callers |-> NoCall]
    /\ writers = [c \in Callers |-> NoWrite]

SpecFrequency == InitFrequency /\ [][NextFrequency]_vars

----------------------------------------------------------------------------
(* calculate_savings on the weekly rates parse_frequency_to_weekly gives   *)
(* and on average amounts in steps of 50 rupees: arg holds the two         *)
(* arguments, ret.response the dict returned.                              *)

MaxSpendSteps == 20

\* 0.5, 1, 2, 3.5, 5 and 7 orders a week, in hundredths
WeeklyRates == {50, 100, 200, 350, 500, 700}

SpendMore ==
    /\ pc = "idle"
    /\ arg.avg_order_amount < 50 * MaxSpendSteps
    /\ arg' = [arg EXCEPT !.avg_order_amount = @ + 50]
    /\ UNCHANGED <<env, callers, writers, redis, expired, pg, started, pc, st, trace, turn0,
                   pgWrites, indexes, ret, lastOp, turns, faults, failed>>

CalculateSavings(ties) ==
    /\ pc = "idle"
    /\ ret' = [response |->
                   calculate_savings(arg.weekly_orders, arg.avg_order_amount, ties),
               error |-> FALSE]
    /\ pc' = "done"
    /\ UNCHANGED <<env, callers, writers, redis, expired, pg, started, st, arg, trace, turn0,
                   pgWrites, indexes, lastOp, turns, faults, failed>>

NextSavings ==
    \/ SpendMore
    \/ \E ties \in SUBSET Rounded : CalculateSavings(ties)

InitSavings ==
    /\ env = [api_key |-> FALSE, llm_client |-> "none"]
    /\ redis = clear_session(SessionId)
    /\ expired = [keys |-> {}, ever |-> FALSE]
    /\ pg = EmptyTables
    /\ started = "no"
    /\ pc = "idle"
    /\ st = create_initial_state("pitch")
    /\ \E weekly_orders \in WeeklyRates :
          arg = [weekly_orders |-> weekly_orders, avg_order_amount |-> 50]
    /\ trace = <<>>
    /\ turn0 = NoTurn
    /\ pgWrites = <<>>
    /\ indexes = <<>>
    /\ ret = NoResult
    /\ lastOp = "none"
    /\ turns = 0
    /\ faults = 0
    /\ failed = {}
    /\ callers = [c \in Callers |-> NoCall]
    /\ writers = [c \in Callers |-> NoWrite]

SpecSavings == InitSavings /\ [][NextSavings]_vars

----------------------------------------------------------------------------
(* Properties of a turn *)

IdentityOnly == <<"identity", "end">>

Chain == <<"retrieve_memory", "generate_response", "extract_profile", "write_memory", "end">>

\* C1: when a turn is over, the nodes it ran are identity then end (not
\* verified before or by this turn), identity then the whole chain (verified by
\* this turn), or the chain alone (verified at turn start); nothing else.
C1_NodeOrders ==
    pc = "done" =>
        IF turn0.state.identity_verified THEN trace = Chain
        ELSE IF st.identity_verified THEN trace = <<"identity">> \o Chain
        ELSE trace = IdentityOnly

\* C2: a turn enters no node twice, and a turn that is over has reached the
\* end of the graph, once.
C2_TerminalOnce ==
    /\ \A i, j \in 1..Len(trace) : trace[i] = trace[j] => i = j
    /\ pc = "done" => "end" \in Range(trace)

\* C3: in a session without TTL expiry, after every completed write to the
\* ephemeral store the metadata field turn_count is the length of the
\* message list.
C3_TurnCountIsLength ==
    (started # "no" /\ ~expired.ever /\ lastOp # "none")
        => Get(get_session_metadata(redis), "turn_count", 0) = Len(get_messages(redis))

\* The list entry of an utterance or a reply; an empty one has none
Entry(role, content) ==
    IF Truthy(content) THEN <<[role |-> role, content |-> content]>> ELSE <<>>

\* C4: a turn that ran without a failure leaves the message list it found,
\* followed by one entry for a non-empty utterance and one for a non-empty
\* reply.
C4_OneEntryPerMessage ==
    (pc = "done" /\ failed = {} /\ ~ret.error)
        => get_messages(redis) = turn0.messages \o Entry("user", arg.user_input)
                                                \o Entry("assistant", ret.response)

WriteSteps == {"write_memory:redis", "write_memory:postgres", "process_message:redis"}

\* C5: a turn in which a write to a store failed, in memory_writer_node or
\* in process_message after the graph, returns the reply the graph produced,
\* without an error.
C5_WriteFailureKeepsReply ==
    (pc = "done" /\ failed # {} /\ failed \subseteq WriteSteps)
        => ret = [response |-> st.current_response, error |-> FALSE]

\* C6: a turn in which reply generation failed (only verified turns generate
\* a reply) has a fixed apology as its reply, and ran extract_profile and
\* write_memory to the end.
C6_ReplyFailureContinues ==
    (pc = "done" /\ "generate_response" \in failed)
        => /\ st.current_response \in {ApologyLlm, ApologyOpenRouter}
           /\ trace \in {Chain, <<"identity">> \o Chain}

\* C7: a turn in which the durable store raised during the lookup or the
\* creation of the user reaches the end of the graph, returns a non-empty
\* reply without an error, and writes nothing to the durable store.
C7_LookupFailureDegrades ==
    (pc = "done" /\ "identity" \in failed)
        => /\ "end" \in Range(trace)
           /\ ~ret.error
           /\ Truthy(ret.response)
           /\ pgWrites = <<>>

\* The state of the first turn of a session start_session has just created
FirstTurn(user_input, session_type) ==
    BuildState(get_session_metadata(
                   store_session_metadata(clear_session(SessionId), SessionId, None,
                                          session_type, NoPhone, FALSE)),
               user_input, session_type)

\* The turn started after every key of the session had expired
Lapsed == turn0.live = {} /\ turn0.expired # {}

\* C8: a turn that starts after the session's keys have expired reads no
\* metadata and no messages, builds the state the first turn of a new
\* session builds, and, like that first turn, runs identity only and returns
\* the greeting.
C8_ExpiredIsNew ==
    /\ Lapsed => /\ turn0.metadata = EmptyMap
                 /\ turn0.messages = <<>>
                 /\ turn0.state = FirstTurn(arg.user_input, arg.session_type)
    /\ (pc = "done" /\ failed = {} /\ (Lapsed \/ turn0.first))
           => /\ trace = IdentityOnly
              /\ ret = [response |-> Greeting, error |-> FALSE]

\* A session whose user was verified expires, and its next turn, with a
\* phone number, is over
C8_Witness ==
    /\ pc = "done" /\ Lapsed /\ ~turn0.first /\ failed = {}
    /\ Len(pg.users) > 0
    /\ arg.user_input = "98765 43210"

\* C9: a mutating operation on the session resets the TTL of every key of
\* the family, and never has one key of the family expired while the other
\* is live.
C9_WholeFamilyTtl ==
    /\ lastOp # "none" => LiveKeys(redis) \subseteq redis.touched
    /\ ~(expired.keys # {} /\ LiveKeys(redis) # {})

----------------------------------------------------------------------------
(* Properties of get_or_create_user *)

\* The users row of a phone number
UserOf(phone_number) == find_user_by_phone(pg, phone_number)

\* C10: no two users rows have the same phone hash, and every call of
\* get_or_create_user that is over has returned the one user of its phone
\* number: created by this call if it is the first, found otherwise.
C10_CreatedOncePerPhone ==
    /\ \A i, j \in 1..Len(pg.users) :
           pg.users[i].phone_number_hash = pg.users[j].phone_number_hash => i = j
    /\ \A c \in Callers :
           callers[c].pc = "done"
               => /\ callers[c].result # <<"raised">>
                  /\ UserOf(callers[c].phone_number) # {}
                  /\ \A u \in UserOf(callers[c].phone_number) : u.id = callers[c].result[1]

----------------------------------------------------------------------------
(* Properties of the durable records of a session *)

\* C11: in every state, a failure between the two commits of create_user
\* included, the users that have a users row are the users that have a
\* user_profiles row.
C11_IdentityWithProfile ==
    {pg.users[i].id : i \in DOMAIN pg.users}
        = {pg.profiles[i].user_id : i \in DOMAIN pg.profiles}

\* The sessions rows of a user in a phase
SessionRecords(P, user_id, session_type) ==
    {i \in DOMAIN P.sessions : /\ P.sessions[i].user_id = user_id
                               /\ P.sessions[i].session_type = session_type}

\* C17: when a turn of a conversation whose identity is resolved to a user
\* is over, the durable store holds the session record of the conversation,
\* linked to that user and carrying the conversation's phase.
C17_OneSessionRecord ==
    (pc = "done" /\ ~ret.error /\ st.identity_verified /\ Truthy(st.user_id))
        => SessionRecords(pg, st.user_id, arg.session_type) # {}

\* The user id in the session's ephemeral metadata
SessionUserId(r) == Get(get_session_metadata(r), "user_id", None)

\* C18: a turn that finds a user id in the session's metadata runs with that
\* user id, and no step other than a TTL expiry or the end of the session
\* replaces or removes a user id stored in the metadata.
C18_UserIdKept ==
    /\ [](Truthy(Get(turn0.metadata, "user_id", None))
            => st.user_id = turn0.metadata.user_id)
    /\ [][(/\ Truthy(SessionUserId(redis))
           /\ started' # "no"
           /\ expired'.keys \subseteq expired.keys)
              => SessionUserId(redis') = SessionUserId(redis)]_vars

\* A turn that found the user id an earlier turn had stored has run the
\* whole chain and returned
C18_Witness ==
    /\ pc = "done" /\ ~ret.error /\ trace = Chain
    /\ Truthy(Get(turn0.metadata, "user_id", None))
    /\ SessionUserId(redis) = turn0.metadata.user_id

\* C19: end_session, for a session whose metadata names a user, leaves a
\* sessions row of that user with the end timestamp set.
C19_EndSetsRecord ==
    [][(started # "no" /\ started' = "no" /\ Truthy(SessionUserId(redis)))
          => \E i \in DOMAIN pg'.sessions :
                /\ pg'.sessions[i].user_id = SessionUserId(redis)
                /\ pg'.sessions[i].ended_at # None]_vars

----------------------------------------------------------------------------
(* Properties of store_insight *)

\* C12: in every state, under every interleaving of the store_insight calls
\* of concurrent sessions, no two computed_insights rows have the same user,
\* insight type and insight key.
C12_OneRowPerKey ==
    \A i, j \in DOMAIN pg.insights :
        (/\ pg.insights[i].user_id = pg.insights[j].user_id
         /\ pg.insights[i].insight_type = pg.insights[j].insight_type
         /\ pg.insights[i].insight_key = pg.insights[j].insight_key) => i = j

\* C13: a store_insight call that ran alone and found the key stored by an
\* earlier call leaves exactly one row of the key, with the value, numeric
\* value, confidence and session of this call.
C13_SecondCallWins ==
    \A c \in Callers :
        (/\ writers[c].pc = "done" /\ writers[c].op = "store_insight"
         /\ writers[c].alone /\ writers[c].seen # {})
            => LET a == writers[c].args
                   rows == InsightRows(pg, StoreUser, a.insight_type, a.insight_key)
               IN  /\ Cardinality(rows) = 1
                   /\ \A i \in rows :
                         /\ pg.insights[i].insight_value = a.insight_value
                         /\ pg.insights[i].numeric_value = a.numeric_value
                         /\ pg.insights[i].confidence = a.confidence
                         /\ pg.insights[i].derived_from_session_id = a.session_id

----------------------------------------------------------------------------
(* Properties of update_user_profile *)

\* The profile row of the user all sessions write to
StoredProfile == CHOOSE row \in get_user_profile(pg, StoreUser) : TRUE

\* The update_user_profile call of session c is over and has committed
Merged(c) ==
    /\ writers[c].pc = "done" /\ writers[c].op = "update_user_profile"
    /\ ~writers[c].raised

\* The profile the call of session c started from
ProfileBefore(c) ==
    IF writers[c].seen = {} THEN DefaultProfile(StoreUser)
    ELSE CHOOSE row \in writers[c].seen : TRUE

MapColumns == DOMAIN DefaultProfile(StoreUser) \ (ListColumns \cup {"user_id"})

NoDuplicates(list) == \A i, j \in DOMAIN list : list[i] = list[j] => i = j

\* C14: an update_user_profile call that ran alone, with or without a
\* profile row before it, leaves in every map field the keys the field had,
\* with their values, and the keys of the call, with the values of the call;
\* and it leaves no list field with the same item twice.
C14_KeysKeptNoDuplicates ==
    \A c \in Callers :
        (Merged(c) /\ writers[c].alone)
            => /\ get_user_profile(pg, StoreUser) # {}
               /\ \A k \in MapColumns :
                     StoredProfile[k] = Update(ProfileBefore(c)[k], Get(writers[c].args, k, EmptyMap))
               /\ \A k \in ListColumns : NoDuplicates(StoredProfile[k])

\* C15: after an update_user_profile call that ran alone, a second call with
\* the same updates changes nothing, in the map fields and in the list
\* fields, whether the first call found a profile row or inserted one.
C15_MergeIdempotent ==
    \A c \in Callers :
        (Merged(c) /\ writers[c].alone)
            => update_user_profile(pg, StoreUser, writers[c].args) = pg

\* A call that ran alone has merged a map field and a list field into the
\* profile row it found, and has changed both
C15_Witness ==
    \E c \in Callers :
        /\ Merged(c) /\ writers[c].alone /\ writers[c].seen # {}
        /\ {"spending_patterns", "pain_points"} \subseteq DOMAIN writers[c].args
        /\ StoredProfile.spending_patterns # ProfileBefore(c).spending_patterns
        /\ StoredProfile.pain_points # ProfileBefore(c).pain_points

\* C16: under every interleaving of the update_user_profile calls of two
\* sessions, a call that is over has not raised, and the profile holds the
\* map keys and the list items of its updates.
C16_NoLostUpdate ==
    \A c \in Callers :
        (writers[c].pc = "done" /\ writers[c].op = "update_user_profile")
            => /\ ~writers[c].raised
               /\ get_user_profile(pg, StoreUser) # {}
               /\ \A k \in DOMAIN writers[c].args :
                     IF k \in ListColumns
                     THEN Range(writers[c].args[k]) \subseteq Range(StoredProfile[k])
                     ELSE DOMAIN writers[c].args[k] \subseteq DOMAIN StoredProfile[k]

----------------------------------------------------------------------------
(* Properties of memory_writer_node *)

----------------------------------------------------------------------------
(* Properties of the nodes *)

\* C21: extract_profile never ends the turn: whether or not the semantic
\* extractor is configured, the node hands on to write_memory, with the
\* rule-based facts of the utterance when the semantic extractor has none.
C21_ExtractorNeverFails ==
    [][pc = "extract_profile"
          => /\ pc' = "write_memory"
             /\ st'.extracted_info =
                    IF Truthy(st.current_input)
                    THEN extract_with_rules(Chars(st.current_input))
                    ELSE st.extracted_info]_vars

\* The running turn started unverified with a counter of 1 or more, and its
\* utterance holds no phone number
Malformed ==
    /\ ~turn0.state.identity_verified
    /\ turn0.state.turn_count >= 1
    /\ extract_phone_number(Chars(arg.user_input)) = NoPhone

\* The identity flag the next turn will read from the session's metadata
Verified(r) == Get(get_session_metadata(r), "identity_verified", FALSE)

AskAgain(user_input) == IF Truthy(user_input) THEN RePrompt ELSE Greeting

----------------------------------------------------------------------------
(* Properties of process_message *)

\* C23: every turn, whatever state the process holds of earlier turns and
\* whether or not it has restarted, starts from the verification flag, phone
\* number, user id and turn count of the session's metadata and from the
\* stored message list, with the arguments of the call; it enters the graph
\* by the flag read from the store, with no node run and no durable write
\* carried over.  So turns with equal store contents and equal arguments
\* start equal.
C23_TurnStartsFromStore ==
    [][(pc = "idle" /\ pc' # "idle")
          => /\ st' = [phone_number |-> Get(get_session_metadata(redis), "phone_number", NoPhone),
                       identity_verified |-> Verified(redis),
                       user_id |-> SessionUserId(redis),
                       is_new_user |-> TRUE,
                       session_type |-> arg'.session_type,
                       turn_count |-> Get(get_session_metadata(redis), "turn_count", 0),
                       current_input |-> arg'.user_input,
                       current_response |-> None,
                       extracted_info |-> EmptyMap]
             /\ turn0'.messages = get_messages(redis)
             /\ pc' = (IF Verified(redis) THEN "retrieve_memory" ELSE "identity")
             /\ trace' = <<>> /\ pgWrites' = <<>>
             /\ redis' = redis /\ pg' = pg]_vars

\* A turn has run as an unverified one, identity only, in a process that
\* held the verified state of an earlier turn, the session's metadata having
\* no identity
C23_Witness ==
    /\ pc = "done" /\ ~ret.error
    /\ turn0.stale
    /\ ~Get(turn0.metadata, "identity_verified", FALSE)
    /\ trace = IdentityOnly

----------------------------------------------------------------------------
(* Properties of RedisMemory *)

\* C25: every add_message call that returns adds one entry to the message
\* list and returns the new length, and after it the turn_count of the
\* metadata is the length of the list get_messages returns, whatever the
\* calls before it did.
C25_CountIsLength ==
    /\ []((lastOp = "add_message" /\ ~ret.error /\ turns > 0)
            => /\ ret.response = Len(get_messages(redis))
               /\ Get(get_session_metadata(redis), "turn_count", 0) = Len(get_messages(redis)))
    /\ [][(turns' # turns /\ ~ret'.error)
            => /\ Len(get_messages(redis')) = Len(get_messages(redis)) + 1
               /\ SubSeq(get_messages(redis'), 1, Len(get_messages(redis))) = get_messages(redis)]_vars

\* The second call has returned 2: the first call failed after its push, and
\* its entry is counted
C25_Witness ==
    /\ turns = 2 /\ faults = 1 /\ ~ret.error
    /\ ret.response = 2
    /\ Get(get_session_metadata(redis), "turn_count", 0) = 2
    /\ Len(get_messages(redis)) = 2

----------------------------------------------------------------------------
(* Properties of the durable turn records *)

\* C26: the turn_index values memory_writer_node passes to
\* add_conversation_turn for the session are strictly increasing in call
\* order.
C26_IndexesIncrease ==
    \A i, j \in DOMAIN indexes : i < j => indexes[i] < indexes[j]

----------------------------------------------------------------------------
(* Properties of build_session_context *)

\* memory_retriever_node has returned and its context is in the state
Retrieved == pc = "generate_response" /\ "user_context" \in DOMAIN st

\* The sessions rows of the user of the turn
Mine == {row \in Range(pg.sessions) : row.user_id = st.user_id}

\* The row of the set with n newer rows of the set
Nth(rows, n) ==
    CHOOSE row \in rows : Cardinality({r \in rows : r.started_at > row.started_at}) = n

ProfileFields == {"spending_patterns", "food_habits", "financial_goals", "current_cards",
                  "preferences", "pain_points"}

\* The durable context with the profile emptied and the insights removed
WithoutProfile(user_context) ==
    [user_context EXCEPT !.profile = EmptyMap, !.insights = <<>>]

\* C27: in the discovery phase the context built holds the user, the name,
\* the returning flag and the prior sessions (type, date, summary) and
\* nothing else: no profile field and no insight is a key of it or of its
\* user record, and it is the context built from the durable context
\* without its profile and insights.
C27_DiscoveryHidesProfile ==
    (Retrieved /\ st.session_type = "discovery")
        => /\ DOMAIN st.user_context = {"user", "name", "is_returning", "previous_sessions"}
           /\ DOMAIN st.user_context.user \cap (ProfileFields \cup {"profile", "insights"}) = {}
           /\ \A i \in DOMAIN st.user_context.previous_sessions :
                 DOMAIN st.user_context.previous_sessions[i]
                     = {"session_type", "started_at", "summary"}
           /\ failed = {} =>
                 st.user_context = build_session_context(
                     WithoutProfile(get_full_user_context(pg, st.user_id)), "discovery")

\* A discovery turn of a user with a filled profile, insights and sessions
C27_Witness ==
    /\ Retrieved /\ st.session_type = "discovery" /\ failed = {}
    /\ pg.profiles # <<>>
    /\ pg.profiles[1].spending_patterns # EmptyMap
    /\ pg.profiles[1].pain_points # <<>>
    /\ Len(get_full_user_context(pg, st.user_id).insights) = 3
    /\ Len(st.user_context.previous_sessions) = 2

\* C28: the list of prior sessions has at most 2 entries in the discovery
\* phase and at most 3 in the objection phase; when the durable store was
\* read, it has that many or all of the user's sessions, the newest first:
\* its i-th entry shows the user's session with i-1 newer ones.
C28_PriorSessionsBounded ==
    (Retrieved /\ st.session_type \in {"discovery", "objection"})
        => LET previous == st.user_context.previous_sessions
               most == IF st.session_type = "discovery" THEN 2 ELSE 3
           IN  /\ Len(previous) <= most
               /\ failed = {} =>
                    /\ Len(previous) = IF Cardinality(Mine) < most THEN Cardinality(Mine)
                                       ELSE most
                    /\ \A i \in DOMAIN previous :
                          /\ previous[i].session_type = Nth(Mine, i - 1).session_type
                          /\ previous[i].summary = Nth(Mine, i - 1).summary
                          /\ st.session_type = "discovery" =>
                                previous[i].started_at = DateOf(Nth(Mine, i - 1).started_at)
                          /\ st.session_type = "objection" =>
                                previous[i].outcome = Nth(Mine, i - 1).outcome

\* An objection turn of a user with six sessions: the three newest are shown
C28_Witness ==
    /\ Retrieved /\ st.session_type = "objection" /\ failed = {}
    /\ Cardinality(Mine) = 6
    /\ Len(st.user_context.previous_sessions) = 3
    /\ st.user_context.previous_sessions[1].summary = None
    /\ st.user_context.previous_sessions[2].summary = SessionSummaries[5]

\* C29: in the pitch and objection phases the insight map holds, for every
\* insight of the user, the numeric value when the insight has one, 0
\* included, and the string value when it has none.
C29_NumericPreferred ==
    (Retrieved /\ failed = {} /\ st.session_type \in {"pitch", "objection"})
        => \A i \in DOMAIN pg.insights :
              pg.insights[i].user_id = st.user_id
                  => st.user_context.insights[pg.insights[i].insight_key]
                        = IF pg.insights[i].numeric_value # <<>>
                          THEN pg.insights[i].numeric_value
                          ELSE pg.insights[i].insight_value

\* C30: in the pitch phase, when the durable store was read and the user has
\* a discovery session in it, the context holds the summary of the newest
\* discovery session.
C30_DiscoverySummaryKept ==
    (Retrieved /\ failed = {} /\ st.session_type = "pitch")
        => LET discovery == {row \in Mine : row.session_type = "discovery"}
           IN  discovery # {}
                  => /\ "discovery_summary" \in DOMAIN st.user_context
                     /\ st.user_context.discovery_summary = Nth(discovery, 0).summary

----------------------------------------------------------------------------
(* Properties of extract_phone_number *)

\* C32: for a 10-digit number, with or without the +91/91 prefix, and every
\* way of putting separators between its digits, extract_phone_number
\* returns the number itself.
C32_SameTenDigits ==
    pc = "done" => st.phone_number = callers["a"].phone_number

----------------------------------------------------------------------------
(* Properties of parse_frequency_to_weekly *)

\* The phrase has been parsed
Parsed == pc = "done" /\ ret # NoResult

HasDigit(chars) == \E i \in DOMAIN chars : chars[i] \in Digits

\* C33: parse_frequency_to_weekly returns 3.5 for "3-4 times per week", 7.0
\* for "daily" and 2.0 for "twice a week" (values in hundredths); a phrase
\* with the range 3-4 gives 3.5 whatever number or term stands before or
\* after it; a phrase with the number 5 and no range gives 5.0 whatever
\* term it holds; and a phrase with no digit and none of the terms gives
\* None, not zero.
C33_FrequencyRules ==
    Parsed =>
        LET frequency == arg.user_input
            weekly == ret.response
        IN  /\ frequency = Chars("3-4 times per week") => weekly = <<350>>
            /\ frequency = Chars("daily") => weekly = <<700>>
            /\ frequency = Chars("twice a week") => weekly = <<200>>
            /\ Contains(frequency, Chars("3-4")) => weekly = <<350>>
            /\ (Contains(frequency, Chars("5")) /\ ~Contains(frequency, Chars("3-4")))
                    => weekly = <<500>>
            /\ (/\ ~HasDigit(frequency)
                /\ ~Contains(frequency, Chars("daily"))
                /\ ~Contains(frequency, Chars("twice")))
                    => weekly = <<>>
            /\ weekly # <<0>>

\* A phrase with a number, then the range, then a term, parsed as the range
C33_Witness ==
    /\ Parsed
    /\ arg.user_input = Chars("5") \o <<" ">> \o Chars("3-4") \o <<" ">> \o Chars("daily")
    /\ ret.response = <<350>>

----------------------------------------------------------------------------
(* Properties of calculate_savings *)

\* C34: for weekly rate 3.5 and average amount 300, calculate_savings gives
\* weekly_spend 1050, monthly_spend 4547, annual_spend 54600, annual_fee 0
\* with the fee waived, monthly_cashback 455, annual_cashback 5460,
\* monthly_delivery_savings 606, annual_delivery_savings 7274,
\* total_annual_savings 12734 and net_first_year = total_annual_savings + 500.
C34_SavingsExample ==
    (pc = "done" /\ arg.weekly_orders = 350 /\ arg.avg_order_amount = 300)
        => LET savings == ret.response
           IN  /\ savings.weekly_spend = 1050
               /\ savings.monthly_spend = 4547
               /\ savings.annual_spend = 54600
               /\ savings.fee_waived
               /\ savings.annual_fee = 0
               /\ savings.monthly_cashback = 455
               /\ savings.annual_cashback = 5460
               /\ savings.monthly_delivery_savings = 606
               /\ savings.annual_delivery_savings = 7274
               /\ savings.total_annual_savings = 12734
               /\ savings.net_first_year = savings.total_annual_savings + 500

----------------------------------------------------------------------------
(* Properties of the identity flag *)

\* C35: once identity_verified is true in the session's metadata, every step
\* leaves it true, except the expiry of a key and clear_session, after which
\* the flag is absent; no step stores false over true.
C35_VerifiedStays ==
    [][Verified(redis)
          => \/ Verified(redis')
             \/ /\ "identity_verified" \notin DOMAIN get_session_metadata(redis')
                /\ TtlExpire \/ EndSession]_vars

\* A turn of a verified session has run to its end through write_memory,
\* and the flag is still true
C35_Witness ==
    /\ pc = "done"
    /\ Get(turn0.metadata, "identity_verified", FALSE)
    /\ \E i \in DOMAIN trace : trace[i] = "write_memory"
    /\ Verified(redis)

----------------------------------------------------------------------------
(* Properties of the fallback of identity_node *)

\* The metadata of a session verified without a user: the flag is set, a
\* phone number is stored, and the user id is None
WithoutUser(metadata) ==
    /\ Get(metadata, "identity_verified", FALSE)
    /\ Get(metadata, "phone_number", NoPhone) # NoPhone
    /\ Get(metadata, "user_id", None) = None

\* C36: when the turn in which identity_node fell back on a durable-store
\* error has ended, the metadata says verified, with a phone number and no
\* user id; and a turn that starts from such metadata does not run the
\* identity node, gets nothing from memory_retriever_node and makes no
\* durable write.
C36_FallbackLocksOut ==
    /\ (pc = "done" /\ "identity" \in failed) => WithoutUser(get_session_metadata(redis))
    /\ (pc # "idle" /\ WithoutUser(turn0.metadata))
           => /\ pc # "identity"
              /\ \A i \in DOMAIN trace : trace[i] # "identity"
              /\ pc = "retrieve_memory" => memory_retriever_node(st, pg, FALSE) = EmptyMap
              /\ pgWrites = <<>>

----------------------------------------------------------------------------
(* Properties of the PostgreSQL block of memory_writer_node *)

\* The durable calls of the block in the order of lines 66-91: the profile
\* merge (update_user, update_user_profile), the user turn record, the
\* assistant turn record, and the insight derivation (its read, then its
\* upserts)
BlockOrder ==
    <<"update_user", "update_user_profile", "add_conversation_turn:user",
      "add_conversation_turn:assistant", "get_user_profile",
      "store_insight:weekly_orders", "store_insight:avg_order_amount">>

Rank(call) == CHOOSE i \in DOMAIN BlockOrder : BlockOrder[i] = call

IsPrefix(s, t) == Len(s) <= Len(t) /\ s = SubSeq(t, 1, Len(s))

\* The first turn record the block writes, when the turn has any text
FirstRecord(state) ==
    IF Truthy(state.current_input) THEN "add_conversation_turn:user"
    ELSE "add_conversation_turn:assistant"

----------------------------------------------------------------------------
(* Properties of a turn that ends unverified *)

\* The messages process_message appends for the turn (graph.py:216-219)
TurnMessages ==
    (IF Truthy(arg.user_input)
     THEN <<[role |-> "user", content |-> arg.user_input]>> ELSE <<>>)
    \o (IF Truthy(st.current_response)
        THEN <<[role |-> "assistant", content |-> st.current_response]>> ELSE <<>>)

\* What the turn has appended to the message list it found
Appended ==
    SubSeq(get_messages(redis), Len(turn0.messages) + 1, Len(get_messages(redis)))

\* C38: a turn whose state is unverified at its end has run the identity
\* node alone, has answered with the greeting, the re-prompt or the
\* fallback prompt, and has written nothing to the durable store; of the
\* ephemeral store it has changed only the metadata's turn_count and the
\* message list, to which it has appended the turn's messages (all of them
\* unless a store call failed).  No step of such a turn changes the
\* durable store.
C38_UnverifiedTurnFrame ==
    /\ []((pc = "done" /\ ~st.identity_verified)
            => /\ trace = IdentityOnly
               /\ st.current_response \in {Greeting, RePrompt, FallbackPrompt}
               /\ pgWrites = <<>>
               /\ \A k \in DOMAIN turn0.metadata \ {"turn_count"} :
                      /\ k \in DOMAIN get_session_metadata(redis)
                      /\ get_session_metadata(redis)[k] = turn0.metadata[k]
               /\ DOMAIN get_session_metadata(redis)
                      \subseteq DOMAIN turn0.metadata \cup {"turn_count"}
               /\ IsPrefix(turn0.messages, get_messages(redis))
               /\ IsPrefix(Appended, TurnMessages)
               /\ ~ret.error => Appended = TurnMessages)
    /\ [][(pc # "idle" /\ ~st.identity_verified /\ ~st'.identity_verified) => pg' = pg]_vars

\* A turn with an utterance has ended unverified with no failure: both
\* messages are appended, and the durable store, which holds a user of an
\* earlier session, is as it was
C38_Witness ==
    /\ pc = "done" /\ ~st.identity_verified /\ failed = {}
    /\ Truthy(arg.user_input)
    /\ Len(Appended) = 2
    /\ pg.users # <<>>

----------------------------------------------------------------------------
(* Properties of the greeting *)

\* The running turn entered the identity node with a turn counter of 0 or
\* an empty utterance, and with no phone number in its state
GreetingCase ==
    /\ ~turn0.state.identity_verified
    /\ turn0.state.turn_count = 0 \/ ~Truthy(arg.user_input)
    /\ turn0.state.phone_number = NoPhone

\* C39: such a turn is answered with the greeting and resolves nobody, also
\* when its utterance holds a phone number: the identity node is the only
\* node run, the durable store is neither asked nor written, the state stays
\* unverified without a phone number, and so does the metadata.
C39_GreetingBeforeResolution ==
    /\ (pc \notin {"idle", "identity"} /\ GreetingCase)
           => /\ st.current_response = Greeting
              /\ ~st.identity_verified
              /\ st.phone_number = NoPhone
              /\ st.user_id = None
              /\ "identity" \notin failed
              /\ pgWrites = <<>>
              /\ ~Verified(redis)
              /\ Get(get_session_metadata(redis), "phone_number", NoPhone) = NoPhone
    /\ (pc = "done" /\ GreetingCase)
           => /\ trace = IdentityOnly
              /\ ~ret.error => ret.response = Greeting

\* The first turn of a session, with an utterance that holds a phone
\* number, has been answered with the greeting
C39_Witness ==
    /\ pc = "done" /\ GreetingCase /\ failed = {}
    /\ turn0.state.turn_count = 0
    /\ extract_phone_number(Chars(arg.user_input)) # NoPhone
    /\ ret = [response |-> Greeting, error |-> FALSE]

----------------------------------------------------------------------------
(* Properties of the turn that resolves the identity *)

\* The running turn started unverified and its state is verified
Resolving == ~turn0.state.identity_verified /\ st.identity_verified

\* C40: at the end of the turn that resolves the identity, the reply
\* returned is the current_response reply generation has set and none of
\* the welcome texts of the identity node, the turn's assistant message in
\* the message list is that reply, and the turn counter of the state is 2
\* more than at the start of the turn.
C40_ReplyIsGenerated ==
    (pc = "done" /\ Resolving)
        => /\ ret.response = st.current_response
           /\ ret.response \notin {WelcomeNew, WelcomeBack, FallbackWelcome}
           /\ Truthy(st.current_response)
                  => /\ Appended # <<>>
                     /\ Appended[Len(Appended)]
                            = [role |-> "assistant", content |-> st.current_response]
           /\ st.turn_count = turn0.state.turn_count + 2

====
